---- MODULE Spec2Model ----
\* A model of the fixed-width record parsers of this repository:
\*   src/parse_sbj_pu11.py  SBJ_PU11_Parser.parse_file  (the subject layout, with classify)
\*   src/parse_tej_pu11.py  PU11Parser.parse_file       (the content layout)
\* Bytes are the integers 0..255, decoded text is a sequence of Unicode code points,
\* a Python int-or-None value is IntV(n) or NoneV.
\* main() of either parser (the command line, the CSV file, the MySQL import through
\* src/create_mysql_db.py MySQLHandler) runs parse_file as one of its steps.
\* src/openai_analyzer.py main() is a program of its own: it selects the unprocessed
\* announcements, runs the requested analyses of each through call_openai_with_retry
\* and marks the announcement as processed.
EXTENDS Integers, Sequences, FiniteSets, TLC

VARIABLES
    layout,     \* "sbj" or "tej": which parser's parse_file runs
    source,     \* the lines the binary file iterator yields, in order, terminators included
    max_lines,  \* the max_lines argument: NoneV or IntV(n)
    ln,         \* the enumerate counter: the number of lines taken from the iterator
    records,    \* the list `records`
    pc,         \* "idle", "start", "loop", "after", "returned", "raised"
    result,     \* the returned DataFrame: NoFrame until parse_file returns
    fp,         \* the file object of open(infile, 'rb'): "none", "open", "closed"
    log,        \* the logging calls made so far, in order
    args,       \* the command line of main(): NoArgs when parse_file is called directly
    mpc,        \* the position of main(): "lib" when parse_file is called directly
    csv,        \* the CSV file of --output: NoneV, or IntV(the number of rows written)
    handler,    \* the MySQLHandler of main() and what the server holds
    apc,                 \* the position of the analyzer's main(): "idle" when it does not run
    limit_arg,           \* --limit: NoneV or IntV(n)
    analysis_types,      \* --analysis-types, in the order process_announcements runs them
    openai_processed,    \* sbj_pu11.openai_processed of each announcement row: 0 or 1
    content,             \* whether tej_pu11_1 holds txt rows of the announcement
    announcements,       \* the list get_cl1_announcements returned: announcement ids
    ai,                  \* the announcement of the loop of process_announcements (from 1)
    ti,                  \* the analysis of analysis_types that runs or runs next (from 1)
    results,             \* what the analyses of this announcement returned so far
    attempt,             \* `attempt` of call_openai_with_retry: 0, 1, 2
    calls,               \* API requests made by this call of call_openai_with_retry
    waits,               \* seconds slept by each handle_rate_limit of this call
    response,            \* what the API answered to the last request
    raised,              \* the exception that ended this call of call_openai_with_retry
    rate_limit_count,    \* self.rate_limit_count
    consecutive_success, \* self.consecutive_success
    streak               \* history: API successes since the last rate-limit error

\* The variables of main().
mainvars == <<args, mpc, csv, handler>>

\* The variables of the analyzer.
analyzervars == <<apc, limit_arg, analysis_types, openai_processed, content, announcements, ai, ti,
                  results, attempt, calls, waits, response, raised, rate_limit_count,
                  consecutive_success, streak>>

vars == <<layout, source, max_lines, ln, records, pc, result, fp, log, mainvars, analyzervars>>

\* The analyzer does not run.
AnalyzerIdle ==
    /\ apc = "idle"
    /\ limit_arg = [isNone |-> TRUE]
    /\ analysis_types = <<>>
    /\ openai_processed = <<>>
    /\ content = <<>>
    /\ announcements = <<>>
    /\ ai = 0
    /\ ti = 0
    /\ results = <<>>
    /\ attempt = 0
    /\ calls = 0
    /\ waits = <<>>
    /\ response = "none"
    /\ raised = "none"
    /\ rate_limit_count = 0
    /\ consecutive_success = 0
    /\ streak = 0

\* ---------------------------------------------------------------- values

\* Python's None, and a Python int.
NoneV == [isNone |-> TRUE]
IntV(n) == [isNone |-> FALSE, int |-> n]

Min(a, b) == IF a < b THEN a ELSE b
Max(a, b) == IF a > b THEN a ELSE b

\* n copies of x.
Repeat(x, n) == [i \in 1..n |-> x]

\* ---------------------------------------------------------------- bytes

\* Mutant of RstripCRLF: every trailing whitespace byte is removed, as raw.rstrip()
\* would.
RstripWhitespace(raw) ==
    LET keep == {i \in 1..Len(raw) : raw[i] \notin {9, 10, 11, 12, 13, 32}}
    IN  IF keep = {} THEN <<>>
        ELSE SubSeq(raw, 1, CHOOSE i \in keep : \A j \in keep : i >= j)

\* Mutant of RstripCRLF: only the trailing LF are removed, as raw.rstrip(b'\n') would.
RECURSIVE RstripLFOnly(_)
RstripLFOnly(raw) ==
    IF raw # <<>> /\ raw[Len(raw)] = 10
    THEN RstripLFOnly(SubSeq(raw, 1, Len(raw) - 1))
    ELSE raw

\* raw.rstrip(b'\r\n'): every trailing byte that is CR (13) or LF (10) is removed.
RECURSIVE RstripCRLF(_)
RstripCRLF(raw) ==
    IF raw # <<>> /\ raw[Len(raw)] \in {10, 13}
    THEN RstripCRLF(SubSeq(raw, 1, Len(raw) - 1))
    ELSE raw

\* raw.ljust(width, b' '): padded on the right with spaces (32), never cut.
Ljust(raw, width) ==
    IF Len(raw) < width THEN raw \o Repeat(32, width - Len(raw)) ELSE raw

\* The Python slice raw[start:start+length] (0-indexed, clamped to the buffer).
Slice(raw, start, length) ==
    SubSeq(raw, Min(start, Len(raw)) + 1, Min(start + length, Len(raw)))

\* ---------------------------------------------------------------- the codec

\* The part of the Big5 code page the records of this model use: key = lead byte * 256
\* + trail byte, value = the code point bytes.decode('big5') yields for that pair.
\* Every other pair met in the model's inputs is one the codec has no character for.
Big5Table ==
    (41280 :> 12288) @@ (42071 :> 19978) @@ (42147 :> 19981) @@ (42148 :> 20013) @@ (42316 :> 20182) @@
    (42487 :> 20221) @@ (42744 :> 20282) @@ (42732 :> 20301) @@ (43222 :> 20341) @@ (43215 :> 20351) @@
    (43848 :> 20449) @@ (46022 :> 20633) @@ (46789 :> 20661) @@ (48121 :> 20729) @@ (42494 :> 20840) @@
    (42173 :> 20844) @@ (43236 :> 20854) @@ (42830 :> 20919) @@ (44513 :> 20941) @@ (42328 :> 20986) @@
    (42176 :> 20998) @@ (42831 :> 21029) @@ (42833 :> 21033) @@ (43241 :> 21048) @@ (46030 :> 21106) @@
    (45258 :> 21205) @@ (43258 :> 21462) @@ (43260 :> 21463) @@ (42353 :> 21496) @@ (42584 :> 21512) @@
    (42857 :> 21578) @@ (43902 :> 21697) @@ (45282 :> 21806) @@ (45267 :> 21830) @@ (46054 :> 21934) @@
    (48825 :> 22120) @@ (43348 :> 22266) @@ (42087 :> 22303) @@ (42593 :> 22320) @@ (45298 :> 22522) @@
    (48215 :> 22686) @@ (42090 :> 22823) @@ (43365 :> 22996) @@ (42611 :> 23384) @@ (43383 :> 23450) @@
    (43976 :> 23458) @@ (43975 :> 23460) @@ (44645 :> 23481) @@ (45389 :> 23560) @@ (42096 :> 23567) @@
    (43982 :> 23627) @@ (42101 :> 24037) @@ (42411 :> 24066) @@ (43441 :> 24215) @@ (48244 :> 24288) @@
    (43992 :> 24314) @@ (42657 :> 24335) @@ (42958 :> 24418) @@ (45423 :> 24471) @@ (43466 :> 24615) @@
    (48250 :> 24935) @@ (48844 :> 24977) @@ (43472 :> 25151) @@ (43475 :> 25215) @@ (42987 :> 25237) @@
    (44025 :> 25345) @@ (45506 :> 25480) @@ (46251 :> 25563) @@ (50675 :> 25900) @@ (42668 :> 25910) @@
    (46258 :> 25955) @@ (46963 :> 26032) @@ (46262 :> 26222) @@ (46268 :> 26234) @@ (42995 :> 26356) @@
    (42675 :> 26377) @@ (43585 :> 26381) @@ (46273 :> 26399) @@ (42427 :> 26412) @@ (44123 :> 26550) @@
    (44759 :> 26696) @@ (46974 :> 26989) @@ (47715 :> 27083) @@ (48339 :> 27155) @@ (48336 :> 27161) @@
    (48887 :> 27231) @@ (49764 :> 27331) @@ (50550 :> 27402) @@ (44145 :> 27573) @@ (46412 :> 28961) @@
    (49383 :> 29151) @@ (43691 :> 29289) @@ (44883 :> 29305) @@ (45691 :> 29694) @@ (45690 :> 29702) @@
    (42445 :> 29983) @@ (45731 :> 29986) @@ (42446 :> 29992) @@ (46437 :> 30059) @@ (46447 :> 30332) @@
    (44913 :> 30410) @@ (49830 :> 30990) @@ (45756 :> 31080) @@ (44978 :> 31199) @@ (45758 :> 31227) @@
    (46459 :> 31243) @@ (49006 :> 31309) @@ (42463 :> 31435) @@ (44984 :> 31449) @@ (49014 :> 31689) @@
    (50295 :> 31820) @@ (45782 :> 32047) @@ (45781 :> 32068) @@ (46514 :> 32080) @@ (48501 :> 32218) @@
    (49504 :> 32317) @@ (49844 :> 32340) @@ (50796 :> 32412) @@ (43729 :> 32929) @@ (49075 :> 33288) @@
    (45805 :> 33334) @@ (45806 :> 33337) @@ (43133 :> 33391) @@ (47289 :> 34399) @@ (49092 :> 34701) @@
    (42726 :> 34892) @@ (44396 :> 34893) @@ (47307 :> 35037) @@ (44400 :> 35336) @@ (45141 :> 35351) @@
    (45917 :> 35373) @@ (47995 :> 35469) @@ (50130 :> 35657) @@ (50685 :> 35731) @@ (45149 :> 36001) @@
    (45926 :> 36008) @@ (46674 :> 36023) @@ (47342 :> 36035) @@ (47338 :> 36039) @@ (49610 :> 36092) @@
    (43182 :> 36554) @@ (45934 :> 36575) @@ (49888 :> 36681) @@ (49132 :> 36774) @@ (45937 :> 36890) @@
    (47426 :> 36939) @@ (45985 :> 37096) @@ (45987 :> 37117) @@ (44459 :> 37325) @@ (43767 :> 37329) @@
    (48072 :> 37504) @@ (48721 :> 37610) @@ (43769 :> 38272) @@ (46717 :> 38283) @@ (47473 :> 38651) @@
    (47479 :> 38928) @@ (44472 :> 39131) @@ (50665 :> 39636) @@ (41648 :> 65297) @@ (41649 :> 65298)

\* chunk.decode('big5', errors='replace'). The codec reads the chunk left to right: a
\* byte below 0x80 is itself; any other byte is looked up with its successor as a
\* pair, and a pair with a character consumes both bytes; a pair with no character,
\* or a last byte with no successor, yields U+FFFD (65533) and consumes ONE byte,
\* after which decoding resumes at the next byte. It never raises.

\* Bytes i and i+1 are a character of the code page, were the codec to read byte i.
PairAt(chunk, i) ==
    /\ i < Len(chunk)
    /\ chunk[i] >= 128
    /\ (chunk[i] * 256 + chunk[i + 1]) \in DOMAIN Big5Table

\* The number of positions directly before i at each of which a pair stands.
PairsBefore(chunk, i) ==
    CHOOSE r \in 0..(i - 1) :
        /\ \A j \in (i - r)..(i - 1) : PairAt(chunk, j)
        /\ r = i - 1 \/ ~PairAt(chunk, i - r - 1)

\* The codec reads byte i (it is not the second byte of a character it consumed):
\* in a run of positions where pairs stand the codec reads every other one.
IsRead(chunk, i) ==
    \/ i = 1
    \/ chunk[i - 1] < 128
    \/ PairsBefore(chunk, i) % 2 = 0

\* What the codec yields on reading byte i.
UnitAt(chunk, i) ==
    IF chunk[i] < 128 THEN chunk[i]
    ELSE IF PairAt(chunk, i) THEN Big5Table[chunk[i] * 256 + chunk[i + 1]]
    ELSE 65533

Big5Decode(chunk) ==
    LET Read(i) == IsRead(chunk, i)
        at == SelectSeq([i \in 1..Len(chunk) |-> i], Read)
    IN  [k \in 1..Len(at) |-> UnitAt(chunk, at[k])]

\* The characters str.strip() removes (Py_UNICODE_ISSPACE): the ASCII whitespace and
\* separators, NEL, NBSP and the Unicode spaces, of which U+3000 (12288) is in Big5.
Whitespace ==
    {9, 10, 11, 12, 13, 28, 29, 30, 31, 32, 133, 160, 5760, 8232, 8233, 8239, 8287, 12288}
        \cup (8192..8202)

\* text.strip(): leading and trailing whitespace removed.
Strip(text) ==
    LET keep == {i \in 1..Len(text) : text[i] \notin Whitespace}
    IN  IF keep = {} THEN <<>>
        ELSE SubSeq(text, CHOOSE i \in keep : \A j \in keep : i <= j,
                          CHOOSE i \in keep : \A j \in keep : i >= j)

\* Mutant of Rjust: the text is padded on the right, as str.ljust does.
RjustPadsRight(text, width) == text \o Repeat(32, Max(0, width - Len(text)))

\* text.rjust(width): padded on the left with spaces, never cut.
Rjust(text, width) ==
    IF Len(text) < width THEN Repeat(32, width - Len(text)) \o text ELSE text

\* The last n characters, aa[-n:].
Last(text, n) == SubSeq(text, Max(1, Len(text) - n + 1), Len(text))

\* kw in text: kw occurs as a contiguous run of text.
Contains(text, kw) ==
    \E i \in 1..(Len(text) - Len(kw) + 1) : SubSeq(text, i, i + Len(kw) - 1) = kw

\* any(kw in text for kw in kws)
AnyIn(kws, text) == \E kw \in kws : Contains(text, kw)

\* ---------------------------------------------------------------- int(text)

\* The value of a decimal digit character, or -1: int() takes the ASCII digits and
\* every Unicode decimal digit, of which Big5 has the full-width ones (U+FF10..U+FF19).
DigitVal(c) ==
    IF c \in 48..57 THEN c - 48
    ELSE IF c \in 65296..65305 THEN c - 65296
    ELSE -1

IsDigit(c) == DigitVal(c) >= 0

\* The digits part int() accepts in base 10: digits, with single underscores (95)
\* allowed between two digits.
DigitsOk(s) ==
    /\ s # <<>>
    /\ \A i \in 1..Len(s) :
          \/ IsDigit(s[i])
          \/ /\ s[i] = 95
             /\ 1 < i /\ i < Len(s)
             /\ IsDigit(s[i - 1]) /\ IsDigit(s[i + 1])

RECURSIVE DigitsValue(_, _)
DigitsValue(s, acc) ==
    IF s = <<>> THEN acc
    ELSE DigitsValue(Tail(s), IF s[1] = 95 THEN acc ELSE acc * 10 + DigitVal(s[1]))

\* The text without an optional leading sign, '+' (43) or '-' (45).
Unsigned(text) == IF text # <<>> /\ text[1] \in {43, 45} THEN Tail(text) ELSE text

\* int(text) succeeds (otherwise it raises ValueError).
IntOk(text) == DigitsOk(Unsigned(Strip(text)))

\* The value of int(text) when it succeeds.
IntValue(text) ==
    LET t == Strip(text)
        v == DigitsValue(Unsigned(t), 0)
    IN  IF t # <<>> /\ t[1] = 45 THEN 0 - v ELSE v

\* try: rec[name] = int(text) / except: rec[name] = None
IntOrNone(text) == IF IntOk(text) THEN IntV(IntValue(text)) ELSE NoneV

\* ---------------------------------------------------------------- schemas

FD(name, start, length, ftype) ==
    [name |-> name, start |-> start, length |-> length, ftype |-> ftype]

\* SBJ_PU11_Parser.field_defs
SbjFieldDefs ==
    << FD("BAN", 0, 8, "A"),       FD("CODE", 8, 7, "A"),      FD("NAME", 15, 8, "A"),
       FD("D_REALS", 23, 8, "I"),  FD("OD", 31, 2, "I"),       FD("HR_REALS", 33, 6, "I"),
       FD("OCCUR_D", 39, 8, "I"),  FD("BANDAYHR", 47, 24, "A"), FD("RULB", 71, 3, "I"),
       FD("ERX", 74, 1, "A"),      FD("RULC", 75, 2, "I"),     FD("TXTT", 77, 210, "A"),
       FD("MKT", 287, 3, "A") >>

\* PU11Parser.field_defs
TejFieldDefs ==
    << FD("BAN", 0, 8, "A"),       FD("CODE", 8, 7, "A"),      FD("NAME", 15, 20, "A"),
       FD("GDATE", 35, 8, "I"),    FD("HHMMSS", 43, 6, "I"),   FD("DATE", 49, 8, "I"),
       FD("OD", 57, 2, "I"),       FD("HR_REALS", 59, 6, "I"), FD("FILE_NM", 65, 70, "A"),
       FD("OCCUR_D", 135, 8, "I"), FD("SPOKER", 143, 12, "A"), FD("D_REALS", 155, 8, "I"),
       FD("KEYIN1", 163, 8, "I"),  FD("KEY_HR", 171, 4, "I"),  FD("RULA", 175, 3, "I"),
       FD("RULB", 178, 3, "I"),    FD("DBCL", 181, 9, "A"),    FD("MKT", 190, 3, "A"),
       FD("NO", 193, 5, "A"),      FD("TXT", 198, 70, "A") >>

field_defs(lay) == IF lay = "sbj" THEN SbjFieldDefs ELSE TejFieldDefs

\* max(start + length for every field definition): total_length / record_len.
MaxEnd(defs) ==
    CHOOSE m \in {defs[i].start + defs[i].length : i \in 1..Len(defs)} :
        \A i \in 1..Len(defs) : defs[i].start + defs[i].length <= m

total_length(lay) == MaxEnd(field_defs(lay))

\* ---------------------------------------------------------------- the decoder

\* rec[key] = value on a dict: the key is added, or its value replaced.
Put(rec, key, value) ==
    [k \in DOMAIN rec \cup {key} |-> IF k = key THEN value ELSE rec[k]]

\* text = chunk.decode('big5', errors='replace').strip()
FieldText(raw, fd) == Strip(Big5Decode(Slice(raw, fd.start, fd.length)))

\* The value one field definition puts in rec.
FieldValue(raw, fd) ==
    IF fd.ftype = "I" THEN IntOrNone(FieldText(raw, fd)) ELSE FieldText(raw, fd)

\* Mutant of DecodeFrom: an integer field whose text int() rejects is left out of rec.
RECURSIVE DecodeFromSkip(_, _, _, _)
DecodeFromSkip(defs, raw, i, rec) ==
    IF i > Len(defs) THEN rec
    ELSE IF defs[i].ftype = "I" /\ ~IntOk(FieldText(raw, defs[i]))
         THEN DecodeFromSkip(defs, raw, i + 1, rec)
         ELSE DecodeFromSkip(defs, raw, i + 1,
                             Put(rec, defs[i].name, FieldValue(raw, defs[i])))

\* for name, start, length, ftype in self.field_defs: ... rec[name] = ...
RECURSIVE DecodeFrom(_, _, _, _)
DecodeFrom(defs, raw, i, rec) ==
    IF i > Len(defs) THEN rec
    ELSE DecodeFrom(defs, raw, i + 1, Put(rec, defs[i].name, FieldValue(raw, defs[i])))

\* rec = {} followed by the loop over the field definitions.
DecodeFields(defs, raw) == DecodeFrom(defs, raw, 1, <<>>)

\* Mutant of PadRaw: the short buffer is padded on the left, as raw.rjust would.
PadRawLeft(lay, raw) ==
    IF Len(raw) < total_length(lay)
    THEN Repeat(32, total_length(lay) - Len(raw)) \o raw
    ELSE raw

\* Mutant of PadRaw: of a buffer longer than total_length the last total_length bytes
\* are kept.
PadRawKeepTail(lay, raw) ==
    IF Len(raw) > total_length(lay)
    THEN SubSeq(raw, Len(raw) - total_length(lay) + 1, Len(raw))
    ELSE Ljust(raw, total_length(lay))

\* if len(raw) < total_length: raw = raw.ljust(total_length, b' ')
PadRaw(lay, raw) == Ljust(raw, total_length(lay))

\* KwStructure: the keyword literals of src/parse_sbj_pu11.py line 83, as code points.
KwStructure ==
  {
    <<25237, 36039, 26550, 27083>>,   \* 投資架構
    <<32068, 32340, 26550, 27083>>   \* 組織架構
  }

\* KwJointVenture: the keyword literals of src/parse_sbj_pu11.py line 86, as code points.
KwJointVenture ==
  {
    <<21512, 36039>>   \* 合資
  }

\* KwLandBuild: the keyword literals of src/parse_sbj_pu11.py line 89, as code points.
KwLandBuild ==
  {
    <<31199, 22320, 22996, 24314>>   \* 租地委建
  }

\* KwCommissioned: the keyword literals of src/parse_sbj_pu11.py line 89, as code points.
KwCommissioned ==
  {
    <<22996, 24314>>,   \* 委建
    <<25215, 25900>>,   \* 承攬
    <<22996, 35351, 33288, 24314>>   \* 委託興建
  }

\* KwEngineering: the keyword literals of src/parse_sbj_pu11.py line 89, as code points.
KwEngineering ==
  {
    <<24037, 31243>>   \* 工程
  }

\* KwBuySell: the keyword literals of src/parse_sbj_pu11.py line 92, as code points.
KwBuySell ==
  {
    <<36092, 36023>>,   \* 購買
    <<20986, 21806>>   \* 出售
  }

\* KwLease: the keyword literals of src/parse_sbj_pu11.py line 92, as code points.
KwLease ==
  {
    <<31199>>,   \* 租
    <<20351, 29992, 27402, 36039, 29986>>,   \* 使用權資產
    <<31199, 36035, 36039, 29986>>   \* 租賃資產
  }

\* KwDerivative: the keyword literals of src/parse_sbj_pu11.py line 95, as code points.
KwDerivative ==
  {
    <<32080, 27083, 24615>>,   \* 結構性
    <<34893, 29983, 24615>>,   \* 衍生性
    <<29702, 36001, 29986, 21697>>,   \* 理財產品
    <<22522, 37329>>,   \* 基金
    <<20449, 35351, 35336, 30059>>,   \* 信託計畫
    <<21463, 30410, 24977, 35657>>,   \* 受益憑證
    <<25910, 30410, 24977, 35657>>,   \* 收益憑證
    <<29702, 36001, 21830, 21697>>,   \* 理財商品
    <<36039, 29986, 22522, 30990, 35657, 21048>>,   \* 資產基礎證券
    <<32068, 21512, 24335, 21830, 21697>>,   \* 組合式商品
    <<20449, 35351, 21934, 20301>>   \* 信託單位
  }

\* KwJointBuild: the keyword literals of src/parse_sbj_pu11.py line 99, as code points.
KwJointBuild ==
  {
    <<21512, 24314>>   \* 合建
  }

\* KwLandBank: the keyword literals of src/parse_sbj_pu11.py line 101, as code points.
KwLandBank ==
  {
    <<22303, 22320, 37504, 34892>>   \* 土地銀行
  }

\* KwRealEstate: the keyword literals of src/parse_sbj_pu11.py line 101, as code points.
KwRealEstate ==
  {
    <<22303, 22320>>,   \* 土地
    <<24314, 29289>>,   \* 建物
    <<24314, 31689, 29289>>,   \* 建築物
    <<22522, 22320>>,   \* 基地
    <<19981, 21205, 29986>>,   \* 不動產
    <<22320, 19978, 27402>>,   \* 地上權
    <<24288>>,   \* 廠
    <<29992, 22320>>,   \* 用地
    <<25151, 22320>>,   \* 房地
    <<25151, 29986>>,   \* 房產
    <<25151, 23627>>,   \* 房屋
    <<22320, 34399>>,   \* 地號
    <<23567, 27573>>,   \* 小段
    <<24314, 26696>>,   \* 建案
    <<38928, 21806, 23627>>,   \* 預售屋
    <<22823, 27155>>,   \* 大樓
    <<36774, 20844, 23460>>,   \* 辦公室
    <<36554, 20301>>,   \* 車位
    <<38283, 30332, 26696>>,   \* 開發案
    <<37117, 24066, 26356, 26032>>,   \* 都市更新
    <<37117, 26356>>,   \* 都更
    <<23481, 31227>>,   \* 容移
    <<36092, 22320>>,   \* 購地
    <<23481, 31309>>,   \* 容積
    <<29151, 36939, 32317, 37096>>   \* 營運總部
  }

\* KwEquipment: the keyword literals of src/parse_sbj_pu11.py line 107, as code points.
KwEquipment ==
  {
    <<35373, 20633>>,   \* 設備
    <<22266, 23450, 36039, 29986>>,   \* 固定資產
    <<29983, 29986, 32218>>,   \* 生產線
    <<29151, 26989, 36039, 29986>>,   \* 營業資產
    <<36575, 39636>>,   \* 軟體
    <<28961, 24418, 36039, 29986>>,   \* 無形資產
    <<31199, 36035, 36681, 35731, 27402>>,   \* 租賃轉讓權
    <<38651, 31449>>,   \* 電站
    <<36008, 27331>>,   \* 貨櫃
    <<25955, 35037>>,   \* 散裝
    <<38272, 24215>>,   \* 門店
    <<39131, 27231>>,   \* 飛機
    <<33337, 33334>>,   \* 船舶
    <<20854, 20182, 36039, 29986>>,   \* 其他資產
    <<20919, 20941, 27331>>,   \* 冷凍櫃
    <<26032, 33337>>,   \* 新船
    <<25955, 36008>>,   \* 散貨
    <<37610, 32412>>,   \* 鋪纜
    <<29151, 26989, 29992, 36039, 29986>>,   \* 營業用資產
    <<21806, 27231, 26696>>,   \* 售機案
    <<36008, 27231>>,   \* 貨機
    <<30332, 21205, 27231>>,   \* 發動機
    <<23458, 27231>>,   \* 客機
    <<19981, 33391, 20661, 27402>>,   \* 不良債權
    <<25480, 20449, 36039, 29986>>,   \* 授信資產
    <<29151, 36939, 36039, 29986>>,   \* 營運資產
    <<21830, 27161>>,   \* 商標
    <<23560, 21033>>,   \* 專利
    <<20282, 26381, 22120>>,   \* 伺服器
    <<26234, 24935, 36001, 29986>>   \* 智慧財產
  }

\* KwMerger: the keyword literals of src/parse_sbj_pu11.py line 113, as code points.
KwMerger ==
  {
    <<25910, 36092>>,   \* 收購
    <<21512, 20341>>,   \* 合併
    <<20341, 36092>>,   \* 併購
    <<36092, 20341>>,   \* 購併
    <<20998, 21106>>,   \* 分割
    <<32929, 20221, 36681, 25563>>   \* 股份轉換
  }

\* KwBond: the keyword literals of src/parse_sbj_pu11.py line 116, as code points.
KwBond ==
  {
    <<25910, 30410, 35657, 21048>>,   \* 收益證券
    <<20844, 21496, 20661>>,   \* 公司債
    <<23450, 26399, 23384, 21934>>,   \* 定期存單
    <<37329, 34701, 20661>>,   \* 金融債
    <<20661, 21048>>   \* 債券
  }

\* KwEquity: the keyword literals of src/parse_sbj_pu11.py line 119, as code points.
KwEquity ==
  {
    <<32929, 27402>>,   \* 股權
    <<25345, 32929>>,   \* 持股
    <<26222, 36890, 32929>>,   \* 普通股
    <<29305, 21029, 32929>>,   \* 特別股
    <<32929, 31080>>,   \* 股票
    <<26377, 20729, 35657>>,   \* 有價證
    <<27402, 30410>>,   \* 權益
    <<37329, 34701, 36039, 29986>>,   \* 金融資產
    <<35469, 36092>>,   \* 認購
    <<29694, 37329, 22686>>,   \* 現金增
    <<22686, 36039>>,   \* 增資
    <<25237, 36039>>,   \* 投資
    <<22686, 30332, 26032, 32929>>,   \* 增發新股
    <<32047, 35336>>,   \* 累計
    <<35373, 31435>>,   \* 設立
    <<26032, 35373>>,   \* 新設
    <<31820, 35373>>,   \* 籌設
    <<30332, 34892, 26032, 32929>>,   \* 發行新股
    <<32929, 20221, 26696>>,   \* 股份案
    <<20840, 37096, 32929, 20221>>,   \* 全部股份
    <<29694, 22686>>   \* 現增
  }

\* KwAcquireAsset: the keyword literals of src/parse_sbj_pu11.py line 124, as code points.
KwAcquireAsset ==
  {
    <<20844, 21578, 21462, 24471, 36039, 29986>>,   \* 公告取得資產
    <<20844, 21578, 21462, 24471, 37325, 22823, 36039, 29986>>   \* 公告取得重大資產
  }

\* KwAcquire: the keyword literals of src/parse_sbj_pu11.py line 124, as code points.
KwAcquire ==
  {
    <<20844, 21578, 21462, 24471>>,   \* 公告取得
    <<21462, 24471, 32929, 20221>>   \* 取得股份
  }

\* KwShare: the keyword literals of src/parse_sbj_pu11.py line 131, as code points.
KwShare ==
  {
    <<32929>>   \* 股
  }

\* KwSuffix4: the keyword literals of src/parse_sbj_pu11.py line 133, as code points.
KwSuffix4 ==
  {
    <<32929, 20221>>,   \* 股份
    <<20844, 21496>>   \* 公司
  }
\* ---------------------------------------------------------------- classify

\* The conditions of classify, in the order of the source.
\* 1. r.get('RULB') == 24
IsTinv(r) == "RULB" \in DOMAIN r /\ r["RULB"] = IntV(24)
\* 2.
IsStructure(text) == AnyIn(KwStructure, text)
\* 3.
IsJointVenture(text) == AnyIn(KwJointVenture, text)
\* 4.
IsConstruction(text) ==
    AnyIn(KwLandBuild, text) \/ AnyIn(KwCommissioned, text) \/ AnyIn(KwEngineering, text)
\* 5.
\* Mutant of IsLease: the test for 購買 and 出售 is left out.
IsLeaseAnyBuySell(text) == AnyIn(KwLease, text)
IsLease(text) == (~AnyIn(KwBuySell, text)) /\ AnyIn(KwLease, text)
\* 6.
IsDerivative(text) == AnyIn(KwDerivative, text)
\* 7.
IsJointBuild(text) == AnyIn(KwJointBuild, text)
\* Mutant of IsRealEstate: the test for 土地銀行 is left out.
IsRealEstateAnyBank(text) == AnyIn(KwRealEstate, text)
IsRealEstate(text) == (~AnyIn(KwLandBank, text)) /\ AnyIn(KwRealEstate, text)
\* 8.
IsEquipment(text) == AnyIn(KwEquipment, text)
\* 9.
IsMerger(text) == AnyIn(KwMerger, text)
\* 10.
IsBond(text) == AnyIn(KwBond, text)
\* 11.
IsEquity(text) == AnyIn(KwEquity, text)
\* 12.
\* Mutant of IsAcquire: the test for 公告取得資產 and 公告取得重大資產 is left out.
IsAcquireAnyAsset(text) == AnyIn(KwAcquire, text)
IsAcquire(text) == (~AnyIn(KwAcquireAsset, text)) /\ AnyIn(KwAcquire, text)

\* Mutant of Fallback: the default category is 0.
FallbackDefault0(aa) ==
    LET t1 == Strip(Last(aa, 2))
        t2 == Strip(Last(aa, 4))
    IN  IF AnyIn(KwShare, t1) THEN 2
        ELSE IF t2 \in KwSuffix4 THEN 1
        ELSE 0

\* Mutant of Fallback: the last-4 test is a containment test, not an equality.
FallbackContains(aa) ==
    LET t1 == Strip(Last(aa, 2))
        t2 == Strip(Last(aa, 4))
    IN  IF AnyIn(KwShare, t1) THEN 2
        ELSE IF AnyIn(KwSuffix4, t2) THEN 1
        ELSE 99

\* Mutant of Fallback: the last-4 test is made before the last-2 test.
FallbackSuffix4First(aa) ==
    LET t1 == Strip(Last(aa, 2))
        t2 == Strip(Last(aa, 4))
    IN  IF t2 \in KwSuffix4 THEN 1
        ELSE IF AnyIn(KwShare, t1) THEN 2
        ELSE 99

\* Mutant of Fallback: the suffixes are compared as cut, padding spaces included.
FallbackNoStrip(aa) ==
    LET t1 == Last(aa, 2)
        t2 == Last(aa, 4)
    IN  IF AnyIn(KwShare, t1) THEN 2
        ELSE IF t2 \in KwSuffix4 THEN 1
        ELSE 99

\* The tail of classify: cl0 = 99, then the two tests on the stripped suffixes of aa.
Fallback(aa) ==
    LET t1 == Strip(Last(aa, 2))
        t2 == Strip(Last(aa, 4))
    IN  IF AnyIn(KwShare, t1) THEN 2
        ELSE IF t2 \in KwSuffix4 THEN 1
        ELSE 99

\* Mutant of classify: the equity keywords (11) are tested before the equipment
\* keywords (8).
classifyEquityFirst(text, r, aa) ==
    IF IsTinv(r) THEN 1
    ELSE IF IsStructure(text) THEN 4
    ELSE IF IsJointVenture(text) THEN 2
    ELSE IF IsConstruction(text) THEN 13
    ELSE IF IsLease(text) THEN 19
    ELSE IF IsDerivative(text) THEN 8
    ELSE IF IsJointBuild(text) THEN 12
    ELSE IF IsRealEstate(text) THEN 11
    ELSE IF IsEquity(text) THEN 1
    ELSE IF IsEquipment(text) THEN 18
    ELSE IF IsMerger(text) THEN 3
    ELSE IF IsBond(text) THEN 7
    ELSE IF IsAcquire(text) THEN 1
    ELSE Fallback(aa)

\* Mutant of classify: the RULB test comes after the keyword tests.
classifyTinvLast(text, r, aa) ==
    IF IsStructure(text) THEN 4
    ELSE IF IsJointVenture(text) THEN 2
    ELSE IF IsConstruction(text) THEN 13
    ELSE IF IsLease(text) THEN 19
    ELSE IF IsDerivative(text) THEN 8
    ELSE IF IsJointBuild(text) THEN 12
    ELSE IF IsRealEstate(text) THEN 11
    ELSE IF IsEquipment(text) THEN 18
    ELSE IF IsMerger(text) THEN 3
    ELSE IF IsBond(text) THEN 7
    ELSE IF IsEquity(text) THEN 1
    ELSE IF IsAcquire(text) THEN 1
    ELSE IF IsTinv(r) THEN 1
    ELSE Fallback(aa)

\* classify(text, r); aa is the right-aligned subject of the enclosing scope.
classify(text, r, aa) ==
    IF IsTinv(r) THEN 1
    ELSE IF IsStructure(text) THEN 4
    ELSE IF IsJointVenture(text) THEN 2
    ELSE IF IsConstruction(text) THEN 13
    ELSE IF IsLease(text) THEN 19
    ELSE IF IsDerivative(text) THEN 8
    ELSE IF IsJointBuild(text) THEN 12
    ELSE IF IsRealEstate(text) THEN 11
    ELSE IF IsEquipment(text) THEN 18
    ELSE IF IsMerger(text) THEN 3
    ELSE IF IsBond(text) THEN 7
    ELSE IF IsEquity(text) THEN 1
    ELSE IF IsAcquire(text) THEN 1
    ELSE Fallback(aa)

\* ---------------------------------------------------------------- derived fields

\* rec.get(key, default)
Get(rec, key, default) == IF key \in DOMAIN rec THEN rec[key] ELSE default

\* The subject layout: TT1, TT2 and CL are added to the decoded fields.
SbjDerived(rec) ==
    LET tx  == Get(rec, "TXTT", <<>>)
        aa  == Rjust(tx, 210)
        r1  == Put(rec, "TT1", Last(aa, 2))
        r2  == Put(r1, "TT2", Last(aa, 4))
    IN  Put(r2, "CL", classify(tx, r2, aa))

\* Mutant of TejDerived: CLA is cut at two characters, dbcl[:2].
TejDerivedClaTwo(rec) ==
    LET hr   == Get(rec, "HR_REALS", NoneV)
        dbcl == Get(rec, "DBCL", <<>>)
        r1   == Put(rec, "HM_ANN", IF hr.isNone THEN NoneV ELSE IntV(hr.int \div 100))
    IN  Put(r1, "CLA", IF dbcl # <<>> THEN SubSeq(dbcl, 1, Min(2, Len(dbcl))) ELSE <<>>)

\* The content layout: HM_ANN = hr // 100 for an int hr, else None; CLA = dbcl[:1].
TejDerived(rec) ==
    LET hr   == Get(rec, "HR_REALS", NoneV)
        dbcl == Get(rec, "DBCL", <<>>)
        r1   == Put(rec, "HM_ANN", IF hr.isNone THEN NoneV ELSE IntV(hr.int \div 100))
    IN  Put(r1, "CLA", IF dbcl # <<>> THEN SubSeq(dbcl, 1, 1) ELSE <<>>)

\* The body of one loop iteration for a line that is not blank: pad, decode, derive.
ParseRecord(lay, raw) ==
    LET rec == DecodeFields(field_defs(lay), PadRaw(lay, raw))
    IN  IF lay = "sbj" THEN SbjDerived(rec) ELSE TejDerived(rec)

\* ---------------------------------------------------------------- parse_file

\* No DataFrame yet, pd.DataFrame(), and the DataFrame built from the records.
NoFrame == [kind |-> "none"]
EmptyFrame == [kind |-> "frame", columns |-> <<>>, rows |-> <<>>]

\* The names of the schema's fields, in definition order.
BaseColumns(lay) == [i \in 1..Len(field_defs(lay)) |-> field_defs(lay)[i].name]

\* extras / the derived columns of the layout.
ExtraColumns(lay) == IF lay = "sbj" THEN <<"TT1", "TT2", "CL">> ELSE <<"HM_ANN", "CLA">>

\* The keys of the record dicts: the columns of pd.DataFrame(records).
FrameKeys(recs) == UNION {DOMAIN recs[i] : i \in 1..Len(recs)}

\* A float64 cell of a DataFrame, and its NaN.
FloatV(x) == [isNone |-> FALSE, float |-> x]
NaN == [isNaN |-> TRUE]

\* The columns whose values are Python ints or None.
NullableColumns(lay) ==
    {field_defs(lay)[i].name : i \in {j \in 1..Len(field_defs(lay)) : field_defs(lay)[j].ftype = "I"}}
        \cup {"HM_ANN"}

\* The cell of row k, column c of pd.DataFrame(recs). pandas infers one dtype per
\* column: a column of ints is int64 and a column of None is object, both unchanged;
\* a column with ints and None is float64, its ints floats and its None NaN; a column
\* of str is object, unchanged.
Cell(lay, recs, k, c) ==
    IF /\ c \in NullableColumns(lay)
       /\ \E j \in 1..Len(recs) : recs[j][c] = NoneV
       /\ \E j \in 1..Len(recs) : recs[j][c] # NoneV
    THEN IF recs[k][c] = NoneV THEN NaN ELSE FloatV(recs[k][c].int)
    ELSE recs[k][c]

\* Mutant of FrameOf: the derived columns are put before the schema's.
FrameOfExtrasFirst(lay, recs) ==
    LET want == ExtraColumns(lay) \o BaseColumns(lay)
        InFrame(c) == c \in FrameKeys(recs)
        cols == SelectSeq(want, InFrame)
    IN  [kind |-> "frame",
         columns |-> cols,
         rows |-> [k \in 1..Len(recs) |->
                     [c \in {cols[i] : i \in 1..Len(cols)} |-> Cell(lay, recs, k, c)]]]

\* df = pd.DataFrame(records); cols = [c for c in base + extras if c in df.columns];
\* df.loc[:, cols]
FrameOf(lay, recs) ==
    LET want == BaseColumns(lay) \o ExtraColumns(lay)
        InFrame(c) == c \in FrameKeys(recs)
        cols == SelectSeq(want, InFrame)
    IN  [kind |-> "frame",
         columns |-> cols,
         rows |-> [k \in 1..Len(recs) |->
                     [c \in {cols[i] : i \in 1..Len(cols)} |-> Cell(lay, recs, k, c)]]]

\* parse_file called directly, not from main(): no command line, no MySQLHandler.
NoArgs == [output |-> FALSE, to_mysql |-> FALSE]
NoHandler == [connection |-> "none", stored |-> 0, rolled_back |-> FALSE]

\* Mutant of PastLimit: 0 is a limit like any other, `max_lines is not None and ...`.
PastLimitZeroCounts(limit, n) == (~limit.isNone) /\ n > limit.int

\* `max_lines and ln > max_lines` for the line numbered n.
PastLimit(limit, n) == (~limit.isNone) /\ limit.int # 0 /\ n > limit.int

\* One logging call: its level and which message it is.
Log(level, msg) == [level |-> level, msg |-> msg]

\* The state of the file object once nothing refers to its iterator any more. The
\* content layout reads inside `with open(...) as fp`, which closes the file on every
\* way out of the block. The subject layout iterates over open(...) directly and never
\* calls close(): the file is closed only by its finalizer, at once under reference
\* counting and at some later collection otherwise, so either state is possible when
\* parse_file ends.
Released(lay) == IF lay = "tej" THEN {"closed"} ELSE {"open", "closed"}

\* open(infile, 'rb') succeeds: the loop starts.
Open ==
    /\ pc = "start"
    /\ pc' = "loop"
    /\ fp' = "open"
    /\ UNCHANGED <<layout, source, max_lines, ln, records, result, log, mainvars>>
    /\ UNCHANGED analyzervars

\* open(infile, 'rb') raises (no such file, no permission): parse_file raises.
OpenFails ==
    /\ pc = "start"
    /\ pc' = "raised"
    /\ UNCHANGED <<layout, source, max_lines, ln, records, result, fp, log, mainvars>>
    /\ UNCHANGED analyzervars

\* The iterator's read of the next line raises OSError: parse_file raises.
ReadFails ==
    /\ pc = "loop"
    /\ pc' = "raised"
    /\ fp' \in Released(layout)
    /\ UNCHANGED <<layout, source, max_lines, ln, records, result, log, mainvars>>
    /\ UNCHANGED analyzervars

\* The next line is numbered past max_lines: break.
Break ==
    /\ pc = "loop"
    /\ ln < Len(source)
    /\ PastLimit(max_lines, ln + 1)
    /\ ln' = ln + 1
    /\ pc' = "after"
    /\ fp' \in Released(layout)
    /\ UNCHANGED <<layout, source, max_lines, records, result, log, mainvars>>
    /\ UNCHANGED analyzervars

\* The next line is empty once its trailing CR/LF are stripped: continue.
SkipBlank ==
    /\ pc = "loop"
    /\ ln < Len(source)
    /\ ~PastLimit(max_lines, ln + 1)
    /\ RstripCRLF(source[ln + 1]) = <<>>
    /\ ln' = ln + 1
    /\ UNCHANGED <<layout, source, max_lines, records, pc, result, fp, log, mainvars>>
    /\ UNCHANGED analyzervars

\* Mutant of ParseLine: rec is not made anew for each line, and an integer field that
\* does not parse keeps the value the previous line gave it.
ParseLineCarry ==
    /\ pc = "loop"
    /\ ln < Len(source)
    /\ ~PastLimit(max_lines, ln + 1)
    /\ RstripCRLF(source[ln + 1]) # <<>>
    /\ ln' = ln + 1
    /\ LET rec == ParseRecord(layout, RstripCRLF(source[ln + 1]))
           kept == IF records = <<>> THEN rec
                   ELSE [k \in DOMAIN rec |->
                           IF k \in NullableColumns(layout) /\ rec[k] = NoneV
                           THEN records[Len(records)][k] ELSE rec[k]]
       IN  records' = Append(records, kept)
    /\ UNCHANGED <<layout, source, max_lines, pc, result, fp, log, mainvars>>
    /\ UNCHANGED analyzervars

\* The next line holds a record: it is decoded and appended to records.
ParseLine ==
    /\ pc = "loop"
    /\ ln < Len(source)
    /\ ~PastLimit(max_lines, ln + 1)
    /\ RstripCRLF(source[ln + 1]) # <<>>
    /\ ln' = ln + 1
    /\ records' = Append(records, ParseRecord(layout, RstripCRLF(source[ln + 1])))
    /\ UNCHANGED <<layout, source, max_lines, pc, result, fp, log, mainvars>>
    /\ UNCHANGED analyzervars

\* The iterator is exhausted: the loop ends.
EndOfFile ==
    /\ pc = "loop"
    /\ ln = Len(source)
    /\ pc' = "after"
    /\ fp' \in Released(layout)
    /\ UNCHANGED <<layout, source, max_lines, ln, records, result, log, mainvars>>
    /\ UNCHANGED analyzervars

\* Mutant of ReturnEmpty: having no record is raised as an error.
ReturnEmptyRaises ==
    /\ pc = "after"
    /\ records = <<>>
    /\ pc' = "raised"
    /\ UNCHANGED <<layout, source, max_lines, ln, records, result, fp, log, mainvars>>
    /\ UNCHANGED analyzervars

\* if not records: the subject layout logs a warning (沒有讀到任何有效記錄), the content
\* layout an error (未讀到任何記錄，請確認檔案格式。); return pd.DataFrame()
ReturnEmpty ==
    /\ pc = "after"
    /\ records = <<>>
    /\ log' = Append(log, Log(IF layout = "sbj" THEN "WARNING" ELSE "ERROR", "no_records"))
    /\ result' = EmptyFrame
    /\ pc' = "returned"
    /\ UNCHANGED <<layout, source, max_lines, ln, records, fp, mainvars>>
    /\ UNCHANGED analyzervars

\* df = pd.DataFrame(records); return df.loc[:, cols]
ReturnTable ==
    /\ pc = "after"
    /\ records # <<>>
    /\ result' = FrameOf(layout, records)
    /\ pc' = "returned"
    /\ UNCHANGED <<layout, source, max_lines, ln, records, fp, log, mainvars>>
    /\ UNCHANGED analyzervars

\* ---------------------------------------------------------------- main

\* self.config.getint('options', 'batch_size', fallback=1000): the sizes tried.
BatchSizes == {1, 1000}

\* range(0, total_rows, batch_size): the number of batches.
Batches(n, bs) == (n + bs - 1) \div bs

\* insert_dataframe / insert_tej_pu11_dataframe on an open connection with a table of
\* n > 0 rows in batches of bs: every batch is executed and committed, and logged;
\* fail = 0 when no statement fails, else the batch whose executemany or commit raises
\* mysql.connector.Error: the error is logged, the connection rolled back (the batches
\* already committed stay) and False returned.
InsertDataframe(n, bs, fail) ==
    LET done == IF fail = 0 THEN Batches(n, bs) ELSE fail - 1
    IN  [ret |-> (fail = 0),
         stored |-> IF fail = 0 THEN n ELSE done * bs,
         rolled_back |-> (fail # 0),
         logs |-> [i \in 1..done |-> Log("INFO", "batch_inserted")]
                  \o <<IF fail = 0 THEN Log("INFO", "insert_done")
                       ELSE Log("ERROR", "insert_failed")>>]

\* main() up to the call of parse_file: logging.info(開始解析), parser.parse_file(...).
MainParse ==
    /\ mpc = "start"
    /\ log' = Append(log, Log("INFO", "start_parse"))
    /\ pc' = "start"
    /\ mpc' = "parsing"
    /\ UNCHANGED <<layout, source, max_lines, ln, records, result, fp, args, csv, handler>>
    /\ UNCHANGED analyzervars

\* parse_file raised: nothing in main() catches it, the interpreter prints the
\* traceback and ends with status 1.
MainParseRaised ==
    /\ mpc = "parsing"
    /\ pc = "raised"
    /\ mpc' = "exit1"
    /\ UNCHANGED <<layout, source, max_lines, ln, records, pc, result, fp, log, args, csv,
                   handler>>
    /\ UNCHANGED analyzervars

\* if df.empty: logging.error(解析結果為空，結束。); return
MainEmpty ==
    /\ mpc = "parsing"
    /\ pc = "returned"
    /\ result.rows = <<>>
    /\ log' = Append(log, Log("ERROR", "empty_result"))
    /\ mpc' = "exit0"
    /\ UNCHANGED <<layout, source, max_lines, ln, records, pc, result, fp, args, csv, handler>>
    /\ UNCHANGED analyzervars

\* if args.output: df.to_csv(...); logging.info(已輸出 N 筆到 CSV)
MainOutput ==
    /\ mpc = "parsing"
    /\ pc = "returned"
    /\ result.rows # <<>>
    /\ IF args.output
       THEN /\ csv' = IntV(Len(result.rows))
            /\ log' = Append(log, Log("INFO", "csv_written"))
       ELSE UNCHANGED <<csv, log>>
    /\ mpc' = "mysql"
    /\ UNCHANGED <<layout, source, max_lines, ln, records, pc, result, fp, args, handler>>
    /\ UNCHANGED analyzervars

\* df.to_csv raises (the path cannot be written): main() ends with status 1.
MainOutputFails ==
    /\ mpc = "parsing"
    /\ pc = "returned"
    /\ result.rows # <<>>
    /\ args.output
    /\ mpc' = "exit1"
    /\ UNCHANGED <<layout, source, max_lines, ln, records, pc, result, fp, log, args, csv,
                   handler>>
    /\ UNCHANGED analyzervars

\* if args.to_mysql: not asked for.
MainNoMysql ==
    /\ mpc = "mysql"
    /\ ~args.to_mysql
    /\ mpc' = "final"
    /\ UNCHANGED <<layout, source, max_lines, ln, records, pc, result, fp, log, args, csv,
                   handler>>
    /\ UNCHANGED analyzervars

\* MySQLHandler(config_file=...) raises (no config file, or a key missing): _load_config
\* logs the error, main() catches it and logs MySQL 匯入錯誤.
MainHandlerFails ==
    /\ mpc = "mysql"
    /\ args.to_mysql
    /\ log' = log \o <<Log("ERROR", "config_error"), Log("ERROR", "mysql_import_error")>>
    /\ mpc' = "final"
    /\ UNCHANGED <<layout, source, max_lines, ln, records, pc, result, fp, args, csv, handler>>
    /\ UNCHANGED analyzervars

\* handler.connect() returns False: connect logs 連接 MySQL 失敗, main() logs 連線 MySQL 失敗。
MainConnectFails ==
    /\ mpc = "mysql"
    /\ args.to_mysql
    /\ log' = log \o <<Log("INFO", "config_loaded"), Log("ERROR", "connect_failed"),
                       Log("ERROR", "mysql_connect_failed")>>
    /\ mpc' = "final"
    /\ UNCHANGED <<layout, source, max_lines, ln, records, pc, result, fp, args, csv, handler>>
    /\ UNCHANGED analyzervars

\* The try block of main() with a connection made: create_database, create_table (or
\* create_tej_pu11_table), insert_dataframe (or insert_tej_pu11_dataframe), close, and
\* logging.info(已成功匯入 N 筆記錄). Each handler method catches mysql.connector.Error,
\* logs it and returns False; main() looks at none of the values returned. When CREATE
\* DATABASE fails, USE is not executed and every later statement fails.
MainImport ==
    /\ mpc = "mysql"
    /\ args.to_mysql
    /\ \E dbok, tblok \in BOOLEAN, bs \in BatchSizes :
       \E fail \in 0..Batches(Len(result.rows), bs) :
          /\ ~dbok => (~tblok /\ fail = 1)
          /\ LET ins == InsertDataframe(Len(result.rows), bs, fail)
             IN  /\ log' = log
                        \o <<Log("INFO", "config_loaded"), Log("INFO", "connected")>>
                        \o <<IF dbok THEN Log("INFO", "database_created")
                             ELSE Log("ERROR", "create_database_failed")>>
                        \o <<IF tblok THEN Log("INFO", "table_created")
                             ELSE Log("ERROR", "create_table_failed")>>
                        \o ins.logs
                        \o <<Log("INFO", "connection_closed"), Log("INFO", "import_succeeded")>>
                 /\ handler' = [connection |-> "closed", stored |-> ins.stored,
                                rolled_back |-> ins.rolled_back]
    /\ mpc' = "final"
    /\ UNCHANGED <<layout, source, max_lines, ln, records, pc, result, fp, args, csv>>
    /\ UNCHANGED analyzervars

\* The try block of main() when insert_dataframe raises: an exception that is not a
\* mysql.connector.Error while the first batch is prepared, or rollback() raising
\* inside the except clause after the failure was logged. main() catches it and logs
\* MySQL 匯入錯誤; handler.close() is not reached.
MainImportRaises ==
    /\ mpc = "mysql"
    /\ args.to_mysql
    /\ \E in_rollback \in BOOLEAN :
          log' = log
                 \o <<Log("INFO", "config_loaded"), Log("INFO", "connected"),
                      Log("INFO", "database_created"), Log("INFO", "table_created")>>
                 \o (IF in_rollback THEN <<Log("ERROR", "insert_failed")>> ELSE <<>>)
                 \o <<Log("ERROR", "mysql_import_error")>>
    /\ handler' = [connection |-> "open", stored |-> 0, rolled_back |-> FALSE]
    /\ mpc' = "final"
    /\ UNCHANGED <<layout, source, max_lines, ln, records, pc, result, fp, args, csv>>
    /\ UNCHANGED analyzervars

\* The end of main(): the subject layout warns when neither -o nor --to-mysql was
\* given (未指定輸出方式); main() returns and the process ends with status 0.
MainFinal ==
    /\ mpc = "final"
    /\ log' = IF layout = "sbj" /\ ~args.output /\ ~args.to_mysql
              THEN Append(log, Log("WARNING", "no_output_selected"))
              ELSE log
    /\ mpc' = "exit0"
    /\ UNCHANGED <<layout, source, max_lines, ln, records, pc, result, fp, args, csv, handler>>
    /\ UNCHANGED analyzervars

\* ---------------------------------------------------------------- inputs

\* The longest source of the driver family, and the largest max_lines given.
MaxLines == 3
MaxLimit == 2

\* text.encode('big5') for the characters of Big5Table and ASCII: builds input bytes.
Big5Key(c) == CHOOSE k \in DOMAIN Big5Table : Big5Table[k] = c
Big5Inverse == [c \in {Big5Table[k] : k \in DOMAIN Big5Table} |-> Big5Key(c)]

RECURSIVE Big5Encode(_)
Big5Encode(text) ==
    IF text = <<>> THEN <<>>
    ELSE IF text[1] < 128 THEN <<text[1]>> \o Big5Encode(Tail(text))
    ELSE <<Big5Inverse[text[1]] \div 256, Big5Inverse[text[1]] % 256>> \o Big5Encode(Tail(text))

\* bytes placed in a field of the given width: cut or padded with spaces.
InField(bytes, width) == SubSeq(Ljust(bytes, width), 1, width)

CRLF == <<13, 10>>
LF == <<10>>

\* A subject-layout line (no terminator) with the given RULB and TXTT bytes.
SbjLine(rulb, txtt) ==
    InField(<<56, 54, 49, 50, 51, 52, 53, 54>>, 8)         \* BAN      86123456
    \o InField(<<50, 51, 51, 48>>, 7)                      \* CODE     2330
    \o InField(Big5Encode(<<20013, 26412>>) \o <<65>>, 8)  \* NAME     中本A
    \o InField(<<50, 48, 50, 52, 48, 49, 49, 53>>, 8)      \* D_REALS  20240115
    \o InField(<<32, 49>>, 2)                              \* OD       1
    \o InField(<<50, 49, 51, 52, 52, 48>>, 6)              \* HR_REALS 213440
    \o InField(<<50, 48, 50, 52, 48, 49, 49, 52>>, 8)      \* OCCUR_D  20240114
    \o InField(<<50, 51, 51, 48, 50, 48, 50, 52>>, 24)     \* BANDAYHR
    \o InField(rulb, 3)                                    \* RULB
    \o InField(<<69>>, 1)                                  \* ERX      E
    \o InField(<<48, 50>>, 2)                              \* RULC     02
    \o InField(txtt, 210)                                  \* TXTT
    \o InField(<<84, 83, 69>>, 3)                          \* MKT      TSE

\* A content-layout line (no terminator) with the given HR_REALS and DBCL bytes.
TejLine(hr, dbcl) ==
    InField(<<56, 54, 49, 50, 51, 52, 53, 54>>, 8)         \* BAN
    \o InField(<<50, 51, 51, 48>>, 7)                      \* CODE
    \o InField(Big5Encode(<<20844, 21496>>) \o <<65>>, 20) \* NAME     公司A
    \o InField(<<50, 48, 50, 52, 48, 49, 49, 53>>, 8)      \* GDATE
    \o InField(<<50, 49, 51, 52, 52, 48>>, 6)              \* HHMMSS
    \o InField(<<50, 48, 50, 52, 48, 49, 49, 53>>, 8)      \* DATE
    \o InField(<<32, 49>>, 2)                              \* OD
    \o InField(hr, 6)                                      \* HR_REALS
    \o InField(<<70, 46, 116, 120, 116>>, 70)              \* FILE_NM  F.txt
    \o InField(<<50, 48, 50, 52, 48, 49, 49, 52>>, 8)      \* OCCUR_D
    \o InField(Big5Encode(<<20013>>), 12)                  \* SPOKER   中
    \o InField(<<50, 48, 50, 52, 48, 49, 49, 53>>, 8)      \* D_REALS
    \o InField(<<50, 48, 50, 52, 48, 49, 49, 54>>, 8)      \* KEYIN1
    \o InField(<<48, 57, 51, 48>>, 4)                      \* KEY_HR
    \o InField(<<32, 49, 50>>, 3)                          \* RULA
    \o InField(<<32, 50, 52>>, 3)                          \* RULB
    \o InField(dbcl, 9)                                    \* DBCL
    \o InField(<<84, 83, 69>>, 3)                          \* MKT
    \o InField(<<48, 48, 48, 48, 49>>, 5)                  \* NO
    \o InField(Big5Encode(<<20844, 21578, 21462, 24471>>), 70)  \* TXT  公告取得

\* Subjects, as decoded text.
AllKeywords ==
    KwStructure \cup KwJointVenture \cup KwLandBuild \cup KwCommissioned \cup KwEngineering
    \cup KwBuySell \cup KwLease \cup KwDerivative \cup KwJointBuild \cup KwLandBank
    \cup KwRealEstate \cup KwEquipment \cup KwMerger \cup KwBond \cup KwEquity
    \cup KwAcquireAsset \cup KwAcquire \cup KwShare \cup KwSuffix4

\* One keyword of every condition of classify, to be combined in pairs.
PairKeywords ==
    {
    <<25237, 36039, 26550, 27083>>,          \* 投資架構        rule 2
    <<21512, 36039>>,                        \* 合資            rule 3
    <<24037, 31243>>,                        \* 工程            rule 4
    <<31199>>,                               \* 租              rule 5
    <<36092, 36023>>,                        \* 購買            rule 5, excluded
    <<22522, 37329>>,                        \* 基金            rule 6
    <<21512, 24314>>,                        \* 合建            rule 7
    <<22303, 22320>>,                        \* 土地            rule 7
    <<22303, 22320, 37504, 34892>>,          \* 土地銀行        rule 7, excluded
    <<35373, 20633>>,                        \* 設備            rule 8
    <<21512, 20341>>,                        \* 合併            rule 9
    <<20844, 21496, 20661>>,                 \* 公司債          rule 10
    <<32929, 27402>>,                        \* 股權            rule 11
    <<20844, 21578, 21462, 24471>>,          \* 公告取得        rule 12
    <<20844, 21578, 21462, 24471, 36039, 29986>>,  \* 公告取得資產  rule 12, excluded
    <<20013, 26412>>                         \* 中本            no rule
    }

\* Subjects that reach the tail of classify, and subjects with inner or outer spaces.
SuffixSubjects ==
    {
    <<>>,
    <<65>>,                                  \* A
    <<65, 66, 67>>,                          \* ABC
    <<65, 32929>>,                           \* A股
    <<32929, 65>>,                           \* 股A
    <<32929, 65, 66>>,                       \* 股AB
    <<32929, 20221>>,                        \* 股份
    <<65, 32929, 20221>>,                    \* A股份
    <<20844, 21496>>,                        \* 公司
    <<65, 20844, 21496>>,                    \* A公司
    <<65, 66, 20844, 21496>>,                \* AB公司
    <<65, 32, 32, 20844, 21496>>,            \* A, two spaces, 公司
    <<65, 12288, 12288, 20844, 21496>>,      \* A, two ideographic spaces, 公司
    <<32, 20844, 21496, 12288>>              \* space, 公司, ideographic space
    }

\* Subjects that hold a keyword of rule 5 or 12 together with one of the rule's
\* excluding phrases, and endings that the tail of classify tells apart.
ExceptionSubjects ==
    {
    <<31199, 20986, 21806>>,                                       \* 租出售
    <<20351, 29992, 27402, 36039, 29986, 36092, 36023>>,           \* 使用權資產購買
    <<20844, 21578, 21462, 24471, 36039, 29986, 32929>>,           \* 公告取得資產股
    <<20844, 21578, 21462, 24471, 37325, 22823, 36039, 29986,
      21462, 24471, 32929, 20221>>,                                \* 公告取得重大資產取得股份
    <<20844, 21578, 21462, 24471, 36039, 29986, 32, 32,
      20844, 21496>>,                                              \* 公告取得資產, two spaces, 公司
    <<65, 32, 32, 32929, 20221>>                                   \* A, two spaces, 股份
    }

Subjects ==
    AllKeywords \cup {a \o b : a \in PairKeywords, b \in PairKeywords} \cup SuffixSubjects
    \cup ExceptionSubjects

\* TXTT bytes that are not the encoding of any text: a byte that is never valid, a
\* lead byte with no valid trail, and a lead byte cut off by the end of the field.
BrokenSubjects ==
    {
    <<255>> \o Big5Encode(<<32929, 27402>>),
    Big5Encode(<<32929, 27402>>) \o <<128, 65>>,
    <<170, 49>> \o Big5Encode(<<20844, 21496>>),
    Repeat(65, 209) \o <<170, 209>>
    }

\* The bytes of a three-byte integer field (RULB).
Int3 ==
    {
    <<50, 52, 32>>,      \* "24 "
    <<32, 50, 52>>,      \* " 24"
    <<48, 50, 52>>,      \* "024"
    <<43, 50, 52>>,      \* "+24"
    <<45, 50, 52>>,      \* "-24"
    <<45, 48, 32>>,      \* "-0 "
    <<50, 95, 52>>,      \* "2_4"
    <<95, 50, 52>>,      \* "_24"
    <<50, 52, 95>>,      \* "24_"
    <<50, 32, 52>>,      \* "2 4"
    <<32, 32, 32>>,      \* "   "
    <<32, 55, 32>>,      \* " 7 "
    <<50, 52, 65>>,      \* "24A"
    <<45, 32, 32>>,      \* "-  "
    <<43, 45, 49>>,      \* "+-1"
    <<9, 50, 52>>,       \* tab, "24"
    <<255, 50, 52>>,     \* an invalid byte, "24"
    <<164, 50, 52>>,     \* a lead byte with no trail, "24"
    <<162, 177, 52>>,    \* full-width 2, "4"
    <<161, 64, 52>>      \* ideographic space, "4"
    }

\* The bytes of a six-byte integer field (HR_REALS).
Int6 ==
    {
    <<50, 49, 51, 52, 52, 48>>,     \* "213440"
    <<32, 32, 32, 32, 32, 53>>,     \* "     5"
    <<48, 48, 48, 48, 53, 57>>,     \* "000059"
    <<45, 48, 48, 49, 51, 48>>,     \* "-00130"
    <<49, 50, 95, 51, 52, 53>>,     \* "12_345"
    <<49, 50, 95, 95, 52, 53>>,     \* "12__45"
    <<32, 32, 32, 32, 32, 32>>,     \* blank
    <<49, 50, 65, 52, 53, 54>>,     \* "12A456"
    <<49, 50, 46, 52, 53, 32>>,     \* "12.45 "
    <<162, 176, 162, 177, 49, 50>>, \* full-width 1, full-width 2, "12"
    <<49, 50, 51, 52, 53, 170>>     \* "12345" and a lead byte cut off by the field's end
    }

\* The bytes of the DBCL field.
Dbcl ==
    {
    <<65, 49, 50, 51, 52>>,                 \* "A1234"
    <<>>,                                   \* blank
    <<32, 32, 66>>,                         \* "  B"
    Big5Encode(<<20013, 65>>),              \* 中A
    <<255, 65>>,                            \* an invalid byte, "A"
    <<161, 64, 67>>                         \* ideographic space, "C"
    }

\* The lengths at which a full line is cut to give a short line.
SbjCuts == {1, 16, 24, 32, 72, 73, 78, 80, 120, 289}
TejCuts == {1, 16, 36, 60, 62, 64, 182, 190, 267}

SbjBase == SbjLine(<<32, 55, 32>>, Big5Encode(<<65, 66, 20844, 21496>>))
TejBase == TejLine(<<50, 49, 51, 52, 52, 48>>, <<65, 49, 50, 51, 52>>)
Base(lay) == IF lay = "sbj" THEN SbjBase ELSE TejBase

\* Lines read one at a time: every subject with three RULB values, every RULB with two
\* subjects, every HR_REALS with every DBCL, broken bytes, short and over-long lines,
\* a last line with no terminator, lines of spaces, a CR inside a line.
SbjWideLines ==
    {SbjLine(rb, Big5Encode(t)) \o CRLF :
        rb \in {<<50, 52, 32>>, <<32, 55, 32>>, <<32, 32, 32>>}, t \in Subjects}
    \cup {SbjLine(rb, Big5Encode(t)) \o LF :
        rb \in Int3, t \in {<<>>, <<32929, 27402>>}}
    \cup {SbjLine(<<32, 55, 32>>, t) \o LF : t \in BrokenSubjects}

TejWideLines ==
    {TejLine(hr, d) \o CRLF : hr \in Int6, d \in Dbcl}

ShapeLines(lay) ==
    {SubSeq(Base(lay), 1, n) \o LF : n \in (IF lay = "sbj" THEN SbjCuts ELSE TejCuts)}
    \cup { Base(lay) \o <<88, 89, 90>> \o CRLF,
           Base(lay) \o Base(lay) \o LF,
           Base(lay),
           SubSeq(Base(lay), 1, 40),
           <<32>> \o LF,
           <<32, 32, 32>> \o CRLF,
           <<65, 13, 66>> \o LF,
           <<65, 13, 13>> \o LF }

WideLines(lay) == (IF lay = "sbj" THEN SbjWideLines ELSE TejWideLines) \cup ShapeLines(lay)

\* Lines of the sources of several lines: two blank lines, a full line, a short line
\* and the short line already padded with spaces.
DriverLines(lay) ==
    { LF,
      CRLF,
      Base(lay) \o CRLF,
      SubSeq(Base(lay), 1, 20) \o LF }

DriverSources(lay) == UNION {[1..n -> DriverLines(lay)] : n \in 0..MaxLines}

Limits == {NoneV} \cup {IntV(n) : n \in 0..MaxLimit}

\* ---------------------------------------------------------------- specification

Init ==
    /\ layout \in {"sbj", "tej"}
    /\ \/ source \in DriverSources(layout) /\ max_lines \in Limits
       \/ source \in {<<l>> : l \in WideLines(layout)} /\ max_lines = NoneV
    /\ ln = 0
    /\ records = <<>>
    /\ pc = "start"
    /\ result = NoFrame
    /\ fp = "none"
    /\ log = <<>>
    /\ args = NoArgs
    /\ mpc = "lib"
    /\ csv = NoneV
    /\ handler = NoHandler
    /\ AnalyzerIdle

Next ==
    \/ Open
    \/ OpenFails
    \/ ReadFails
    \/ Break
    \/ SkipBlank
    \/ ParseLine
    \/ EndOfFile
    \/ ReturnEmpty
    \/ ReturnTable

Spec == Init /\ [][Next]_vars

\* ---------------------------------------------------------------- main: specification

\* The files given to main(): an empty file, a blank line, one full line, and a full
\* line, a blank line and a short line.
MainSources(lay) ==
    { <<>>,
      <<LF>>,
      <<Base(lay) \o CRLF>>,
      <<Base(lay) \o CRLF, LF, SubSeq(Base(lay), 1, 20) \o LF>> }

\* --max-lines: not given, or 1.
MainLimits == {NoneV, IntV(1)}

\* -o / --output given or not, --to-mysql given or not.
MainArgs == [output : BOOLEAN, to_mysql : BOOLEAN]

MainInit ==
    /\ layout \in {"sbj", "tej"}
    /\ source \in MainSources(layout)
    /\ max_lines \in MainLimits
    /\ args \in MainArgs
    /\ ln = 0
    /\ records = <<>>
    /\ pc = "idle"
    /\ result = NoFrame
    /\ fp = "none"
    /\ log = <<>>
    /\ mpc = "start"
    /\ csv = NoneV
    /\ handler = NoHandler
    /\ AnalyzerIdle

MainNext ==
    \/ MainParse
    \/ Open
    \/ OpenFails
    \/ ReadFails
    \/ Break
    \/ SkipBlank
    \/ ParseLine
    \/ EndOfFile
    \/ ReturnEmpty
    \/ ReturnTable
    \/ MainParseRaised
    \/ MainEmpty
    \/ MainOutput
    \/ MainOutputFails
    \/ MainNoMysql
    \/ MainHandlerFails
    \/ MainConnectFails
    \/ MainImport
    \/ MainImportRaises
    \/ MainFinal

MainSpec == MainInit /\ [][MainNext]_vars

\* ---------------------------------------------------------------- analyzer

\* The variables of the parsers and of their main().
parservars == <<layout, source, max_lines, ln, records, pc, result, fp, log, mainvars>>

\* OpenAIAnalyzer.__init__: the fourth rate limit stops the program, the first wait is
\* 60 seconds, five successes in a row reset the rate-limit count.
max_rate_limit_attempts == 4
base_wait_time == 60
reset_threshold == 5

\* call_openai_with_retry: max_attempts = 3
max_attempts == 3

\* handle_rate_limit sleeps at most 30 seconds at a time.
sleep_chunk == 30

\* The rows of sbj_pu11 whose rulc is one of --rulc, numbered in the order of
\* ORDER BY d_reals DESC, hr_reals DESC.
MaxAnnouncements == 2
Ids == 1..MaxAnnouncements

\* The analyses in the order process_announcements runs them.
AnalysisTypes == <<"summary", "when", "how_much", "who_what">>

\* --analysis-types: the code only asks `t in analysis_types`.
TypeChoices == { {"summary"}, {"when", "who_what"}, {"summary", "when", "how_much", "who_what"} }

Requested(types) == SelectSeq(AnalysisTypes, LAMBDA t : t \in types)

\* analyze_summary / analyze_when / analyze_how_much / analyze_who_what: the stripped
\* text of the response, or the failure placeholder of the analysis when
\* call_openai_with_retry raised.
Analysed(t) == <<t, "text">>
Placeholder(t) == <<t, "analysis_failed">>

\* get_cl1_announcements: WHERE openai_processed = 0 ... ORDER BY, LIMIT when `limit` is
\* truthy, and of these rows the ones with content rows in tej_pu11_1.
Unprocessed(db) == SelectSeq([a \in 1..MaxAnnouncements |-> a], LAMBDA a : db[a] = 0)

SqlLimit(rows, lim) ==
    IF lim.isNone \/ lim.int = 0 THEN rows ELSE SubSeq(rows, 1, Min(lim.int, Len(rows)))

get_cl1_announcements(db, cont, lim) ==
    SelectSeq(SqlLimit(Unprocessed(db), lim), LAMBDA a : cont[a])

\* record_success with `>` for `>=`: the reset comes one success later.
record_success_late(count, success) ==
    IF success + 1 > reset_threshold
    THEN [rate_limit_count |-> 0, consecutive_success |-> 0]
    ELSE [rate_limit_count |-> count, consecutive_success |-> success + 1]

\* record_success: the counters after one more success.
record_success(count, success) ==
    IF success + 1 >= reset_threshold
    THEN [rate_limit_count |-> 0, consecutive_success |-> 0]
    ELSE [rate_limit_count |-> count, consecutive_success |-> success + 1]

\* The while loop of handle_rate_limit: the sleeps it makes for wait_time seconds.
RECURSIVE Sleeps(_)
Sleeps(remaining_time) ==
    IF remaining_time > 0
    THEN <<Min(sleep_chunk, remaining_time)>>
         \o Sleeps(remaining_time - Min(sleep_chunk, remaining_time))
    ELSE <<>>

RECURSIVE SumSeq(_)
SumSeq(s) == IF s = <<>> THEN 0 ELSE Head(s) + SumSeq(Tail(s))

\* handle_rate_limit with a wait that grows by base_wait_time instead of doubling.
handle_rate_limit_linear(count) ==
    [rate_limit_count |-> count + 1,
     consecutive_success |-> 0,
     raises |-> count + 1 >= max_rate_limit_attempts,
     slept |-> IF count + 1 >= max_rate_limit_attempts THEN 0
               ELSE SumSeq(Sleeps(base_wait_time * (count + 1)))]

\* handle_rate_limit: the counters after one more rate limit, whether it raises, and
\* the seconds it sleeps when it does not.
handle_rate_limit(count) ==
    [rate_limit_count |-> count + 1,
     consecutive_success |-> 0,
     raises |-> count + 1 >= max_rate_limit_attempts,
     slept |-> IF count + 1 >= max_rate_limit_attempts THEN 0
               ELSE SumSeq(Sleeps(base_wait_time * (2 ^ count)))]

\* mysql_handler.connect() or select_database() fails: logging.error, return.
AnalyzerConnectFails ==
    /\ apc = "start"
    /\ apc' = "returned"
    /\ UNCHANGED <<limit_arg, analysis_types, openai_processed, content, announcements, ai, ti,
                   results, attempt, calls, waits, response, raised, rate_limit_count,
                   consecutive_success, streak>>
    /\ UNCHANGED parservars

\* The query of get_cl1_announcements raises: it returns None and main() returns.
AnalyzerQueryFails ==
    /\ apc = "start"
    /\ apc' = "returned"
    /\ UNCHANGED <<limit_arg, analysis_types, openai_processed, content, announcements, ai, ti,
                   results, attempt, calls, waits, response, raised, rate_limit_count,
                   consecutive_success, streak>>
    /\ UNCHANGED parservars

\* announcements = analyzer.get_cl1_announcements(...); if not announcements: return;
\* otherwise process_announcements starts its loop.
AnalyzerQuery ==
    /\ apc = "start"
    /\ announcements' = get_cl1_announcements(openai_processed, content, limit_arg)
    /\ apc' = IF announcements' = <<>> THEN "returned" ELSE "loop"
    /\ ai' = 1
    /\ UNCHANGED <<limit_arg, analysis_types, openai_processed, content, ti, results, attempt,
                   calls, waits, response, raised, rate_limit_count, consecutive_success,
                   streak>>
    /\ UNCHANGED parservars

\* The top of the loop body: the original content is written to its file.
BeginAnnouncement ==
    /\ apc = "loop"
    /\ ai <= Len(announcements)
    /\ results' = <<>>
    /\ ti' = 1
    /\ apc' = "analyze"
    /\ UNCHANGED <<limit_arg, analysis_types, openai_processed, content, announcements, ai,
                   attempt, calls, waits, response, raised, rate_limit_count,
                   consecutive_success, streak>>
    /\ UNCHANGED parservars

\* Writing the original content raises: except Exception: logging.error, continue.
BeginAnnouncementFails ==
    /\ apc = "loop"
    /\ ai <= Len(announcements)
    /\ ai' = ai + 1
    /\ UNCHANGED <<apc, limit_arg, analysis_types, openai_processed, content, announcements,
                   ti, results, attempt, calls, waits, response, raised, rate_limit_count,
                   consecutive_success, streak>>
    /\ UNCHANGED parservars

\* The next requested analysis enters call_openai_with_retry.
StartCall ==
    /\ apc = "analyze"
    /\ ti <= Len(Requested(analysis_types))
    /\ attempt' = 0
    /\ calls' = 0
    /\ waits' = <<>>
    /\ response' = "none"
    /\ raised' = "none"
    /\ apc' = "call"
    /\ UNCHANGED <<limit_arg, analysis_types, openai_processed, content, announcements, ai, ti,
                   results, rate_limit_count, consecutive_success, streak>>
    /\ UNCHANGED parservars

\* The request succeeds: record_success, the response is returned and the analysis
\* returns its text.
AttemptSucceeds ==
    /\ apc = "call"
    /\ calls' = calls + 1
    /\ response' = "ok"
    /\ rate_limit_count' = record_success(rate_limit_count, consecutive_success).rate_limit_count
    /\ consecutive_success' =
           record_success(rate_limit_count, consecutive_success).consecutive_success
    /\ streak' = streak + 1
    /\ results' = Append(results, Analysed(Requested(analysis_types)[ti]))
    /\ ti' = ti + 1
    /\ apc' = "analyze"
    /\ UNCHANGED <<limit_arg, analysis_types, openai_processed, content, announcements, ai,
                   attempt, waits, raised>>
    /\ UNCHANGED parservars

\* The request raises openai.RateLimitError. Before the last attempt handle_rate_limit
\* runs: it sleeps and the loop retries, or it raises Exception from inside the except
\* clause, which leaves call_openai_with_retry. On the last attempt the error is raised
\* again. The analysis catches either exception and returns its placeholder.
AttemptRateLimited ==
    /\ apc = "call"
    /\ calls' = calls + 1
    /\ response' = "rate_limit"
    /\ streak' = 0
    /\ IF attempt < max_attempts - 1
       THEN /\ rate_limit_count' = handle_rate_limit(rate_limit_count).rate_limit_count
            /\ consecutive_success' = handle_rate_limit(rate_limit_count).consecutive_success
            /\ IF handle_rate_limit(rate_limit_count).raises
               THEN /\ raised' = "Exception"
                    /\ results' = Append(results, Placeholder(Requested(analysis_types)[ti]))
                    /\ ti' = ti + 1
                    /\ apc' = "analyze"
                    /\ UNCHANGED <<attempt, waits>>
               ELSE /\ waits' = Append(waits, handle_rate_limit(rate_limit_count).slept)
                    /\ attempt' = attempt + 1
                    /\ UNCHANGED <<apc, raised, results, ti>>
       ELSE /\ raised' = "RateLimitError"
            /\ results' = Append(results, Placeholder(Requested(analysis_types)[ti]))
            /\ ti' = ti + 1
            /\ apc' = "analyze"
            /\ UNCHANGED <<attempt, waits, rate_limit_count, consecutive_success>>
    /\ UNCHANGED <<limit_arg, analysis_types, openai_processed, content, announcements, ai>>
    /\ UNCHANGED parservars

\* The request raises any other exception: logging.error, raise e; the analysis
\* catches it and returns its placeholder.
AttemptFails ==
    /\ apc = "call"
    /\ calls' = calls + 1
    /\ response' = "error"
    /\ raised' = "APIError"
    /\ results' = Append(results, Placeholder(Requested(analysis_types)[ti]))
    /\ ti' = ti + 1
    /\ apc' = "analyze"
    /\ UNCHANGED <<limit_arg, analysis_types, openai_processed, content, announcements, ai,
                   attempt, waits, rate_limit_count, consecutive_success, streak>>
    /\ UNCHANGED parservars

\* All requested analyses returned; the results are written and
\* update_openai_processed_status(ann_id, True) commits.
MarkProcessed ==
    /\ apc = "analyze"
    /\ ti > Len(Requested(analysis_types))
    /\ openai_processed' = [openai_processed EXCEPT ![announcements[ai]] = 1]
    /\ ai' = ai + 1
    /\ apc' = "loop"
    /\ UNCHANGED <<limit_arg, analysis_types, content, announcements, ti, results, attempt,
                   calls, waits, response, raised, rate_limit_count, consecutive_success,
                   streak>>
    /\ UNCHANGED parservars

\* update_openai_processed_status returns False (the UPDATE failed): logging.warning.
MarkFails ==
    /\ apc = "analyze"
    /\ ti > Len(Requested(analysis_types))
    /\ ai' = ai + 1
    /\ apc' = "loop"
    /\ UNCHANGED <<limit_arg, analysis_types, openai_processed, content, announcements, ti,
                   results, attempt, calls, waits, response, raised, rate_limit_count,
                   consecutive_success, streak>>
    /\ UNCHANGED parservars

\* Writing the summary file raises: except Exception: logging.error, continue.
WriteSummaryFails ==
    /\ apc = "analyze"
    /\ ti > Len(Requested(analysis_types))
    /\ "summary" \in analysis_types
    /\ ai' = ai + 1
    /\ apc' = "loop"
    /\ UNCHANGED <<limit_arg, analysis_types, openai_processed, content, announcements, ti,
                   results, attempt, calls, waits, response, raised, rate_limit_count,
                   consecutive_success, streak>>
    /\ UNCHANGED parservars

\* The loop is over: process_announcements returns, mysql_handler.close(), main() ends.
AnalyzerEnd ==
    /\ apc = "loop"
    /\ ai > Len(announcements)
    /\ apc' = "done"
    /\ UNCHANGED <<limit_arg, analysis_types, openai_processed, content, announcements, ai, ti,
                   results, attempt, calls, waits, response, raised, rate_limit_count,
                   consecutive_success, streak>>
    /\ UNCHANGED parservars

\* ---------------------------------------------------------------- analyzer: specification

\* --limit: not given, 0 or 1.
AnalyzerLimits == {NoneV, IntV(0), IntV(1)}

\* The analyzer starts on a table left by the import and by earlier runs: any row may
\* already be processed, any row may lack content.
AnalyzerInit ==
    /\ layout = "sbj"
    /\ source = <<>>
    /\ max_lines = NoneV
    /\ ln = 0
    /\ records = <<>>
    /\ pc = "idle"
    /\ result = NoFrame
    /\ fp = "none"
    /\ log = <<>>
    /\ args = NoArgs
    /\ mpc = "lib"
    /\ csv = NoneV
    /\ handler = NoHandler
    /\ apc = "start"
    /\ limit_arg \in AnalyzerLimits
    /\ analysis_types \in TypeChoices
    /\ openai_processed \in [Ids -> {0, 1}]
    /\ content \in [Ids -> BOOLEAN]
    /\ announcements = <<>>
    /\ ai = 0
    /\ ti = 0
    /\ results = <<>>
    /\ attempt = 0
    /\ calls = 0
    /\ waits = <<>>
    /\ response = "none"
    /\ raised = "none"
    /\ rate_limit_count = 0
    /\ consecutive_success = 0
    /\ streak = 0

AnalyzerNext ==
    \/ AnalyzerConnectFails
    \/ AnalyzerQueryFails
    \/ AnalyzerQuery
    \/ BeginAnnouncement
    \/ BeginAnnouncementFails
    \/ StartCall
    \/ AttemptSucceeds
    \/ AttemptRateLimited
    \/ AttemptFails
    \/ MarkProcessed
    \/ MarkFails
    \/ WriteSummaryFails
    \/ AnalyzerEnd

AnalyzerSpec == AnalyzerInit /\ [][AnalyzerNext]_vars

\* ---------------------------------------------------------------- claims

\* A line holds a record: it has a byte other than CR and LF, so it is not empty
\* once its trailing CR/LF are stripped.
NonBlank(line) == \E i \in 1..Len(line) : line[i] \notin {10, 13}

\* The lines of src that hold a record, in order.
DataLines(src) == SelectSeq(src, NonBlank)

\* The record the parser makes of a line.
RecordOf(line) == ParseRecord(layout, RstripCRLF(line))

\* The records of the first n data lines of the source.
FirstRecords(n) == [k \in 1..Min(n, Len(DataLines(source))) |-> RecordOf(DataLines(source)[k])]

Unlimited == max_lines.isNone

\* C1 (as claimed): with max_lines = N >= 1, the result holds the records of the first
\* N non-blank lines, or of all of them when there are fewer than N; blank lines do
\* not count toward N.
C1_LimitCountsRecords ==
    (pc = "returned" /\ ~Unlimited /\ max_lines.int >= 1)
        => records = FirstRecords(max_lines.int)

\* A cell of the returned table holds the value v of the record: v itself, or v as a
\* float64 (None as NaN) in a column that holds both ints and None.
SameCell(c, cell, v) ==
    \/ cell = v
    \/ /\ c \in NullableColumns(layout)
       /\ IF v = NoneV THEN cell = NaN ELSE cell = FloatV(v.int)

\* A row of the returned table is the record rec.
RowIsRecord(row, rec) ==
    /\ DOMAIN row = DOMAIN rec
    /\ \A c \in DOMAIN rec : SameCell(c, row[c], rec[c])

\* C2: with no max_lines, parse_file returns exactly one record per non-blank line and
\* none for a blank line, in input order: the k-th row is the record of the k-th
\* non-blank line.
C2_OneRecordPerDataLine ==
    (pc = "returned" /\ Unlimited)
        => /\ records = FirstRecords(Len(source))
           /\ Len(result.rows) = Len(records)
           /\ \A k \in 1..Len(records) : RowIsRecord(result.rows[k], records[k])

C2_Witness ==
    /\ pc = "returned" /\ Unlimited
    /\ Len(source) = 3
    /\ NonBlank(source[1]) /\ ~NonBlank(source[2]) /\ NonBlank(source[3])
    /\ Len(result.rows) = 2
    /\ result.rows[1] # result.rows[2]
    /\ records[1] = RecordOf(source[1])
    /\ result.rows[1]["BAN"] = records[1]["BAN"]
    /\ result.rows[1]["OD"] = FloatV(1)
    /\ result.rows[2]["OD"] = NaN

\* The records of the subject layout made so far.
SbjRecords == IF layout = "sbj" THEN {records[k] : k \in 1..Len(records)} ELSE {}

\* The predicate of rule n of the ordered rule list, for a record's subject and RULB.
RuleHolds(n, r) ==
    CASE n = 1  -> r["RULB"] = IntV(24)
      [] n = 2  -> IsStructure(r["TXTT"])
      [] n = 3  -> IsJointVenture(r["TXTT"])
      [] n = 4  -> IsConstruction(r["TXTT"])
      [] n = 5  -> IsLease(r["TXTT"])
      [] n = 6  -> IsDerivative(r["TXTT"])
      [] n = 7  -> IsJointBuild(r["TXTT"]) \/ IsRealEstate(r["TXTT"])
      [] n = 8  -> IsEquipment(r["TXTT"])
      [] n = 9  -> IsMerger(r["TXTT"])
      [] n = 10 -> IsBond(r["TXTT"])
      [] n = 11 -> IsEquity(r["TXTT"])
      [] n = 12 -> IsAcquire(r["TXTT"])
      [] n = 13 -> TRUE

\* The category rule n gives.
RuleCategory(n, r) ==
    CASE n = 1  -> 1
      [] n = 2  -> 4
      [] n = 3  -> 2
      [] n = 4  -> 13
      [] n = 5  -> 19
      [] n = 6  -> 8
      [] n = 7  -> IF IsJointBuild(r["TXTT"]) THEN 12 ELSE 11
      [] n = 8  -> 18
      [] n = 9  -> 3
      [] n = 10 -> 7
      [] n = 11 -> 1
      [] n = 12 -> 1
      [] n = 13 -> Fallback(Rjust(r["TXTT"], 210))

\* The lowest-numbered rule whose predicate holds.
FirstRule(r) == CHOOSE n \in 1..13 : RuleHolds(n, r) /\ \A m \in 1..(n - 1) : ~RuleHolds(m, r)

\* C3: the category of every record is the category of the lowest-numbered rule, in
\* the order 1 to 13, whose predicate holds; a later rule that also matches never
\* changes the result.
C3_FirstMatchingRule == \A r \in SbjRecords : r["CL"] = RuleCategory(FirstRule(r), r)

\* A subject with an equipment keyword (8) and an equity keyword (11), and no match in
\* rules 1 to 7, is classified 18.
C3_Witness ==
    \E r \in SbjRecords :
        /\ RuleHolds(8, r) /\ RuleHolds(11, r)
        /\ \A m \in 1..7 : ~RuleHolds(m, r)
        /\ r["CL"] = 18

\* C4: a record whose decoded RULB is 24 has category 1, whatever its subject holds.
C4_Rulb24IsCategory1 == \A r \in SbjRecords : r["RULB"] = IntV(24) => r["CL"] = 1

\* RULB is 24 and the subject holds a keyword of rule 2, which alone would give 4.
C4_Witness ==
    \E r \in SbjRecords :
        /\ r["RULB"] = IntV(24)
        /\ AnyIn(KwStructure, r["TXTT"])
        /\ r["CL"] = 1

Categories == {1, 2, 3, 4, 7, 8, 11, 12, 13, 18, 19, 99}

\* C5: the CL of every subject-layout record, in the list and in the returned table,
\* is one of the twelve categories.
C5_CategoryInEnumeration ==
    /\ \A r \in SbjRecords : r["CL"] \in Categories
    /\ (layout = "sbj" /\ pc = "returned")
          => \A k \in 1..Len(result.rows) : result.rows[k]["CL"] \in Categories

\* A returned table whose record is of category 12, from a subject that also holds a
\* real-estate keyword.
C5_Witness ==
    /\ layout = "sbj" /\ pc = "returned"
    /\ Len(result.rows) = 1
    /\ result.rows[1]["CL"] = 12
    /\ AnyIn(KwRealEstate, result.rows[1]["TXTT"])

\* Neither test of the fallback matches the record's suffixes TT1 and TT2.
NoSuffixMatch(r) ==
    /\ ~Contains(Strip(r["TT1"]), <<32929>>)
    /\ Strip(r["TT2"]) # <<32929, 20221>>
    /\ Strip(r["TT2"]) # <<20844, 21496>>

\* C6: classify gives every record a category, a null RULB and an empty subject
\* included, and the category is 99 whenever none of rules 1 to 12 holds and neither
\* suffix test matches.
C6_TotalAndDefault99 ==
    \A r \in SbjRecords :
        /\ "CL" \in DOMAIN r
        /\ r["CL"] \in Int
        /\ ((\A n \in 1..12 : ~RuleHolds(n, r)) /\ NoSuffixMatch(r)) => r["CL"] = 99

\* A record with a null RULB and an empty subject is uncategorized.
C6_Witness ==
    \E r \in SbjRecords :
        /\ r["RULB"] = NoneV
        /\ r["CL"] = 99
        /\ r["TXTT"] = <<>>

\* The buffer of the k-th record made so far: the k-th data line, its CR/LF stripped.
BufferOf(k) == RstripCRLF(DataLines(source)[k])

\* buf followed by the spaces that bring it to the layout's total length.
SpacePadded(buf) == buf \o Repeat(32, total_length(layout) - Len(buf))

\* C7: the record made of a buffer shorter than total_length is the record made of
\* that buffer right-padded with spaces to total_length; the short line is not
\* rejected.
C7_RightPaddingInvariance ==
    \A k \in 1..Len(records) :
        Len(BufferOf(k)) < total_length(layout)
            => records[k] = ParseRecord(layout, SpacePadded(BufferOf(k)))

\* A line cut after the first byte of a two-byte character of NAME was decoded: NAME
\* is the replacement character, the fields behind the cut are empty or null.
C7_Witness ==
    /\ pc = "returned"
    /\ Len(records) = 1
    /\ Len(BufferOf(1)) = 16
    /\ records[1]["NAME"] = <<65533>>
    /\ records[1]["MKT"] = <<>>
    /\ records[1]["OD"] = NoneV

\* The names of the schema's fields.
FieldNames(lay) == {field_defs(lay)[i].name : i \in 1..Len(field_defs(lay))}

\* The number of field definitions of each layout.
FieldCount(lay) == IF lay = "sbj" THEN 13 ELSE 20

\* v is a decoded text, v is a Python int or None.
IsText(v) == v \in Seq(Nat)
IsIntOrNone(v) == v = NoneV \/ (DOMAIN v = {"isNone", "int"} /\ ~v.isNone /\ v.int \in Int)

\* C8: every buffer read gives a record, and the record has exactly one entry per
\* field definition (13 for the subject layout, 20 for the content layout), a text
\* for a text field and an int or None for an integer field; invalid bytes and
\* non-numeric integer fields end no batch.
C8_OneEntryPerField ==
    /\ \A k \in 1..Len(records) :
          /\ FieldNames(layout) \subseteq DOMAIN records[k]
          /\ DOMAIN records[k] \ FieldNames(layout) \subseteq
                {ExtraColumns(layout)[i] : i \in 1..Len(ExtraColumns(layout))}
          /\ Cardinality(DOMAIN records[k] \cap FieldNames(layout)) = FieldCount(layout)
          /\ \A i \in 1..Len(field_defs(layout)) :
                LET fd == field_defs(layout)[i]
                IN  IF fd.ftype = "I" THEN IsIntOrNone(records[k][fd.name])
                    ELSE IsText(records[k][fd.name])
    /\ (pc \in {"loop", "returned"} /\ Unlimited)
          => Len(records) = Len(DataLines(SubSeq(source, 1, ln)))

\* A record was made of a buffer with an invalid byte in a text field and a
\* non-numeric integer field.
C8_Witness ==
    \E k \in 1..Len(records) :
        /\ \E i \in 1..Len(field_defs(layout)) :
              /\ field_defs(layout)[i].ftype = "A"
              /\ Contains(records[k][field_defs(layout)[i].name], <<65533>>)
        /\ \E i \in 1..Len(field_defs(layout)) :
              /\ field_defs(layout)[i].ftype = "I"
              /\ FieldText(PadRaw(layout, BufferOf(k)), field_defs(layout)[i]) # <<>>
              /\ records[k][field_defs(layout)[i].name] = NoneV

\* text is a base-10 integer: an optional sign and one or more decimal digits.
Base10(text) ==
    /\ Unsigned(text) # <<>>
    /\ \A i \in 1..Len(Unsigned(text)) : IsDigit(Unsigned(text)[i])

RECURSIVE Base10Digits(_)
Base10Digits(s) ==
    IF s = <<>> THEN 0 ELSE Base10Digits(SubSeq(s, 1, Len(s) - 1)) * 10 + DigitVal(s[Len(s)])

Base10Value(text) ==
    IF text[1] = 45 THEN 0 - Base10Digits(Unsigned(text)) ELSE Base10Digits(Unsigned(text))

\* C9 (as claimed): the value of an integer field is null if and only if its trimmed
\* decoded text is not a base-10 integer; otherwise it is that integer.
C9_NullIffNotBase10 ==
    \A k \in 1..Len(records) : \A i \in 1..Len(field_defs(layout)) :
        LET fd   == field_defs(layout)[i]
            text == FieldText(SpacePadded(BufferOf(k)), fd)
        IN  fd.ftype = "I" =>
                records[k][fd.name] = (IF Base10(text) THEN IntV(Base10Value(text)) ELSE NoneV)

\* C10: a pass that made no record returns the empty table and does not raise; a
\* failure to open or read the source raises and returns nothing; every return gives
\* a table, so the caller tells the two apart.
C10_EmptyResultIsNotAnError ==
    [][ /\ (pc = "after" /\ records = <<>>) => (pc' = "returned" /\ result' = EmptyFrame)
        /\ pc' = "raised" => (pc \in {"start", "loop"} /\ result' = NoFrame)
        /\ pc' = "returned" => result'.kind = "frame"
      ]_vars

\* The pass over a source of blank lines only has returned the empty table.
C10_Witness ==
    /\ pc = "returned"
    /\ Len(source) = 2
    /\ ln = 2
    /\ \A i \in 1..Len(source) : ~NonBlank(source[i])
    /\ result = EmptyFrame

\* C11: when parse_file has ended, by returning a table (empty or not, after the
\* end of the source or after the break at max_lines) or by raising on a read error,
\* the file it opened is closed, in the subject layout and in the content layout.
C11_SourceReleasedOnExit == pc \in {"returned", "raised"} => fp # "open"

\* The last n characters of a subject right-aligned in 210 characters: the subject's
\* own last characters, preceded by spaces when it has fewer than n.
Suffix(tx, n) == [i \in 1..n |-> IF Len(tx) - n + i >= 1 THEN tx[Len(tx) - n + i] ELSE 32]

\* None of rules 1 to 12 holds of the record.
ReachesFallback(r) == \A n \in 1..12 : ~RuleHolds(n, r)

Gu == <<32929>>                                      \* 股
GuFen == <<32929, 20221>>                            \* 股份
GongSi == <<20844, 21496>>                           \* 公司

\* C12 as stated: when none of rules 1 to 12 holds, the category is 2 if the last-2
\* suffix holds 股, else 1 if the last-4 suffix is exactly 股份 or 公司, else 99.
C12_FallbackOnRawSuffixes ==
    \A r \in SbjRecords :
        ReachesFallback(r) =>
            r["CL"] = IF Contains(Suffix(r["TXTT"], 2), Gu) THEN 2
                      ELSE IF Suffix(r["TXTT"], 4) \in {GuFen, GongSi} THEN 1
                      ELSE 99

\* C12, amended: when none of rules 1 to 12 holds, the category is 2 if the last-2
\* suffix holds 股, else 1 if the last-4 suffix with its leading and trailing
\* whitespace removed is exactly 股份 or 公司, else 99.
C12_FallbackOnTrimmedSuffixes ==
    \A r \in SbjRecords :
        ReachesFallback(r) =>
            r["CL"] = IF Contains(Suffix(r["TXTT"], 2), Gu) THEN 2
                      ELSE IF Strip(Suffix(r["TXTT"], 4)) \in {GuFen, GongSi} THEN 1
                      ELSE 99

\* The subject "A  公司" matches no rule; its last-4 suffix is two spaces and 公司, and
\* the record is of category 1.
C12_Witness ==
    \E r \in SbjRecords :
        /\ ReachesFallback(r)
        /\ r["TXTT"] = <<65, 32, 32>> \o GongSi
        /\ Suffix(r["TXTT"], 4) = <<32, 32>> \o GongSi
        /\ r["CL"] = 1

\* C13: TT1 and TT2 of every subject-layout record are the last 2 and the last 4
\* characters of the trimmed TXTT left-padded with spaces to 210 characters: TT1 has
\* 2 characters and TT2 has 4, TT1 is the end of TT2, and a subject of fewer than 2
\* (4) characters gives a TT1 (TT2) that begins with a padding space. The returned
\* table holds the same values.
C13_SuffixesOfRightAlignedSubject ==
    /\ \A r \in SbjRecords :
        /\ r["TT1"] = Suffix(r["TXTT"], 2)
        /\ r["TT2"] = Suffix(r["TXTT"], 4)
        /\ Len(r["TT1"]) = 2
        /\ Len(r["TT2"]) = 4
        /\ r["TT1"] = SubSeq(r["TT2"], 3, 4)
        /\ Len(r["TXTT"]) < 2 => r["TT1"][1] = 32
        /\ Len(r["TXTT"]) < 4 => r["TT2"][1] = 32
    /\ (layout = "sbj" /\ pc = "returned") =>
        \A k \in 1..Len(result.rows) :
            /\ result.rows[k]["TT1"] = Suffix(result.rows[k]["TXTT"], 2)
            /\ result.rows[k]["TT2"] = Suffix(result.rows[k]["TXTT"], 4)

\* The returned row of the one-character subject "A": TT1 is a space and A, TT2 three
\* spaces and A.
C13_Witness ==
    /\ layout = "sbj" /\ pc = "returned"
    /\ Len(result.rows) = 1
    /\ result.rows[1]["TXTT"] = <<65>>
    /\ result.rows[1]["TT1"] = <<32, 65>>
    /\ result.rows[1]["TT2"] = <<32, 32, 32, 65>>

\* The records of the content layout made so far.
TejRecords == IF layout = "tej" THEN {records[k] : k \in 1..Len(records)} ELSE {}

\* The integer whose decimal digits are those of n without the two low-order ones,
\* the sign kept: 213440 gives 2134, -130 gives -1.
DropSeconds(n) == IF n >= 0 THEN n \div 100 ELSE -((-n) \div 100)

\* C14: HM_ANN of every content-layout record is null exactly when HR_REALS is null,
\* and is otherwise HR_REALS with its two low-order decimal digits (the seconds)
\* dropped, for every value the field decodes to, negative values included.
C14_HourDropsSeconds ==
    \A r \in TejRecords :
        /\ (r["HM_ANN"] = NoneV) <=> (r["HR_REALS"] = NoneV)
        /\ r["HR_REALS"] # NoneV => r["HM_ANN"] = IntV(DropSeconds(r["HR_REALS"].int))

\* C15: CLA of every content-layout record, and of every returned row, is the first
\* character of the trimmed DBCL, or the empty string when DBCL is empty; it never
\* has more than one character.
C15_ClassLetterIsFirstCharacter ==
    /\ \A r \in TejRecords :
        /\ Len(r["CLA"]) <= 1
        /\ r["DBCL"] = <<>> => r["CLA"] = <<>>
        /\ r["DBCL"] # <<>> => r["CLA"] = <<r["DBCL"][1]>>
    /\ (layout = "tej" /\ pc = "returned") =>
        \A k \in 1..Len(result.rows) :
            /\ Len(result.rows[k]["CLA"]) <= 1
            /\ result.rows[k]["DBCL"] = <<>> => result.rows[k]["CLA"] = <<>>
            /\ result.rows[k]["DBCL"] # <<>> => result.rows[k]["CLA"] = <<result.rows[k]["DBCL"][1]>>

\* The returned row of a line whose DBCL field holds "A1234" and spaces: DBCL is
\* "A1234" and CLA is "A".
C15_Witness ==
    /\ layout = "tej" /\ pc = "returned"
    /\ Len(result.rows) = 1
    /\ result.rows[1]["DBCL"] = <<65, 49, 50, 51, 52>>
    /\ result.rows[1]["CLA"] = <<65>>

\* The columns of a table of the subject layout and of the content layout: the
\* schema's fields in definition order, then the derived fields.
SbjColumns ==
    <<"BAN", "CODE", "NAME", "D_REALS", "OD", "HR_REALS", "OCCUR_D", "BANDAYHR", "RULB",
      "ERX", "RULC", "TXTT", "MKT", "TT1", "TT2", "CL">>
TejColumns ==
    <<"BAN", "CODE", "NAME", "GDATE", "HHMMSS", "DATE", "OD", "HR_REALS", "FILE_NM",
      "OCCUR_D", "SPOKER", "D_REALS", "KEYIN1", "KEY_HR", "RULA", "RULB", "DBCL", "MKT",
      "NO", "TXT", "HM_ANN", "CLA">>

\* C16: every returned table that has a row has exactly the columns of its layout, in
\* the fixed order, and every row has a cell for each of them, whatever the records
\* hold.
C16_FixedColumnOrder ==
    (pc = "returned" /\ result.rows # <<>>) =>
        LET cols == IF layout = "sbj" THEN SbjColumns ELSE TejColumns
        IN  /\ result.columns = cols
            /\ \A k \in 1..Len(result.rows) :
                   DOMAIN result.rows[k] = {cols[i] : i \in 1..Len(cols)}

\* A returned table of two rows of the content layout, from a full line and from a
\* line cut in its third field; its last two columns are HM_ANN and CLA.
C16_Witness ==
    /\ layout = "tej" /\ pc = "returned"
    /\ Len(result.rows) = 2
    /\ result.rows[1]["TXT"] # <<>>
    /\ result.rows[2]["TXT"] = <<>>
    /\ Len(result.columns) = 22
    /\ result.columns[21] = "HM_ANN"
    /\ result.columns[22] = "CLA"

HeJian == <<21512, 24314>>                           \* 合建
TuDiYinHang == <<22303, 22320, 37504, 34892>>        \* 土地銀行

\* C20: for every record that none of rules 1 to 6 matches, the category is 12 if the
\* subject holds 合建, whatever else it holds; otherwise it is 11 exactly when the
\* subject holds a real-estate keyword and does not hold 土地銀行. No record whose
\* subject holds 土地銀行 is of category 11.
C20_JointBuildThenRealEstate ==
    \A r \in SbjRecords :
        /\ (\A n \in 1..6 : ~RuleHolds(n, r)) =>
              IF Contains(r["TXTT"], HeJian) THEN r["CL"] = 12
              ELSE (r["CL"] = 11) <=>
                      (AnyIn(KwRealEstate, r["TXTT"]) /\ ~Contains(r["TXTT"], TuDiYinHang))
        /\ Contains(r["TXTT"], TuDiYinHang) => r["CL"] # 11

\* The subject 土地銀行 holds the real-estate keyword 土地, matches none of rules 1 to 6
\* and does not hold 合建: its record is not of category 11 but uncategorized.
C20_Witness ==
    \E r \in SbjRecords :
        /\ r["TXTT"] = TuDiYinHang
        /\ \A n \in 1..6 : ~RuleHolds(n, r)
        /\ AnyIn(KwRealEstate, r["TXTT"])
        /\ r["CL"] = 99

\* main() has ended, by returning or by an exception that nothing caught.
MainEnded == mpc \in {"exit0", "exit1"}

\* The logging calls of the run made at the given level, and those with the given
\* message.
LoggedAt(level) == {i \in 1..Len(log) : log[i].level = level}
Logged(msg) == {i \in 1..Len(log) : log[i].msg = msg}

\* C17: a run of either command whose parse_file returned no record has, once ended,
\* reported it at warning level and logged nothing at error level, ended with status
\* 0, written no CSV file and made no MySQLHandler.
C17_EmptyRunWarnsOnly ==
    (MainEnded /\ pc = "returned" /\ result.rows = <<>>) =>
        /\ mpc = "exit0"
        /\ LoggedAt("WARNING") # {}
        /\ LoggedAt("ERROR") = {}
        /\ csv = NoneV
        /\ handler = NoHandler

\* C19: with --to-mysql, the message that N records were imported is logged only when
\* the insert succeeded: no insert failure was logged before it, nothing was rolled
\* back, and the server holds every row of the table.
C19_SuccessOnlyAfterInsertSucceeded ==
    Logged("import_succeeded") # {} =>
        /\ Logged("insert_failed") = {}
        /\ ~handler.rolled_back
        /\ handler.stored = Len(result.rows)

GouMai == <<36092, 36023>>                           \* 購買
ChuShou == <<20986, 21806>>                          \* 出售
LeaseWords ==
    { <<31199>>,                                     \* 租
      <<20351, 29992, 27402, 36039, 29986>>,         \* 使用權資產
      <<31199, 36035, 36039, 29986>> }               \* 租賃資產

\* The subject holds a lease keyword; it holds 購買 or 出售.
HasLease(tx) == \E kw \in LeaseWords : Contains(tx, kw)
HasBuySell(tx) == Contains(tx, GouMai) \/ Contains(tx, ChuShou)

\* The lowest-numbered rule from rule m on whose predicate holds.
FirstRuleFrom(m, r) ==
    CHOOSE n \in m..13 : RuleHolds(n, r) /\ \A k \in m..(n - 1) : ~RuleHolds(k, r)

\* C21: for every record that none of rules 1 to 4 matches, the category is 19 exactly
\* when the subject holds a lease keyword and neither 購買 nor 出售; a subject with a
\* lease keyword and 購買 or 出售 is never of category 19, and its category is the one
\* rules 6 to 13 give.
C21_LeaseUnlessBuySell ==
    \A r \in SbjRecords :
        /\ (\A n \in 1..4 : ~RuleHolds(n, r)) =>
              /\ (r["CL"] = 19) <=> (HasLease(r["TXTT"]) /\ ~HasBuySell(r["TXTT"]))
              /\ (HasLease(r["TXTT"]) /\ HasBuySell(r["TXTT"])) =>
                     r["CL"] = RuleCategory(FirstRuleFrom(6, r), r)
        /\ (HasLease(r["TXTT"]) /\ HasBuySell(r["TXTT"])) => r["CL"] # 19

\* A subject that holds the lease keyword 租 and 購買, and no keyword of another rule,
\* matches none of rules 1 to 4: it is not of category 19 but falls to rule 13, which
\* gives 99.
C21_Witness ==
    \E r \in SbjRecords :
        /\ \A n \in 1..4 : ~RuleHolds(n, r)
        /\ HasLease(r["TXTT"]) /\ Contains(r["TXTT"], GouMai)
        /\ r["CL"] = 99

GongGaoQuDe == <<20844, 21578, 21462, 24471>>                            \* 公告取得
QuDeGuFen == <<21462, 24471, 32929, 20221>>                              \* 取得股份
QuDeZiChan == <<20844, 21578, 21462, 24471, 36039, 29986>>               \* 公告取得資產
QuDeZhongDa == <<20844, 21578, 21462, 24471, 37325, 22823, 36039, 29986>> \* 公告取得重大資產

\* The subject holds an acquisition keyword; it holds one of the two asset phrases.
HasAcquire(tx) == Contains(tx, GongGaoQuDe) \/ Contains(tx, QuDeGuFen)
HasAssetPhrase(tx) == Contains(tx, QuDeZiChan) \/ Contains(tx, QuDeZhongDa)

\* The category rule 13 gives a subject, from its two suffixes.
SuffixCategory(tx) ==
    IF Contains(Suffix(tx, 2), Gu) THEN 2
    ELSE IF Strip(Suffix(tx, 4)) \in {GuFen, GongSi} THEN 1
    ELSE 99

\* C22: for every record that none of rules 1 to 11 matches, a subject that holds
\* 公告取得 or 取得股份 is of category 1 unless it holds 公告取得資產 or 公告取得重大資產;
\* with one of these two phrases the category is the one rule 13 gives.
C22_AcquireUnlessAssetPhrase ==
    \A r \in SbjRecords :
        (\A n \in 1..11 : ~RuleHolds(n, r)) =>
            /\ (HasAcquire(r["TXTT"]) /\ ~HasAssetPhrase(r["TXTT"])) => r["CL"] = 1
            /\ HasAssetPhrase(r["TXTT"]) => r["CL"] = SuffixCategory(r["TXTT"])

\* The subject 公告取得重大資產取得股份 matches none of rules 1 to 11 and holds 取得股份
\* and an asset phrase: rule 12 does not apply, and rule 13 gives 2 for its ending.
C22_Witness ==
    \E r \in SbjRecords :
        /\ \A n \in 1..11 : ~RuleHolds(n, r)
        /\ r["TXTT"] = QuDeZhongDa \o QuDeGuFen
        /\ r["CL"] = 2

\* C27: of the records that reach rule 13, every one whose last-4 suffix without its
\* padding is 股份 has 股 in its last-2 suffix and is of category 2, and every one of
\* category 1 has a last-4 suffix that without its padding is 公司: the 股份
\* alternative of the last-4 test never decides.
C27_GuFenNeverDecides ==
    \A r \in SbjRecords :
        ReachesFallback(r) =>
            /\ Strip(r["TT2"]) = GuFen => (Contains(r["TT1"], Gu) /\ r["CL"] = 2)
            /\ r["CL"] = 1 => Strip(r["TT2"]) = GongSi

\* The subject "A  股份" reaches rule 13; its last-4 suffix is two spaces and 股份, and
\* its category is 2.
C27_Witness ==
    \E r \in SbjRecords :
        /\ ReachesFallback(r)
        /\ r["TXTT"] = <<65, 32, 32>> \o GuFen
        /\ r["TT2"] = <<32, 32>> \o GuFen
        /\ r["CL"] = 2

\* C28: with max_lines = 0 parse_file, of either layout, does what it does with no
\* limit: when the loop has ended every line of the source has been read and every
\* non-blank line has given a record, and the table returned has a row for each.
C28_ZeroMeansNoLimit ==
    (max_lines = IntV(0) /\ pc \in {"after", "returned"}) =>
        /\ ln = Len(source)
        /\ records = FirstRecords(Len(source))
        /\ pc = "returned" => Len(result.rows) = Len(DataLines(source))

\* parse_file with max_lines = 0 has returned a table of two rows from a source of
\* three lines, one of them blank.
C28_Witness ==
    /\ max_lines = IntV(0)
    /\ pc = "returned"
    /\ Len(source) = 3
    /\ Len(DataLines(source)) = 2
    /\ Len(result.rows) = 2

\* C29: the record made of a buffer longer than total_length is the record made of
\* its first total_length bytes: the bytes behind them reach no field; and the long
\* line gives one record, it is neither dropped nor cut into several.
C29_BytesPastTotalLengthIgnored ==
    /\ \A k \in 1..Len(records) :
          Len(BufferOf(k)) > total_length(layout) =>
              records[k] = ParseRecord(layout, SubSeq(BufferOf(k), 1, total_length(layout)))
    /\ (pc = "returned" /\ Unlimited /\ \E i \in 1..Len(source) :
                                           Len(RstripCRLF(source[i])) > total_length(layout))
          => /\ Len(records) = Len(DataLines(source))
             /\ Len(result.rows) = Len(records)

\* A line that holds the bytes of two full records one after the other has given one
\* row, the record of its first total_length bytes.
C29_Witness ==
    /\ pc = "returned"
    /\ Len(source) = 1
    /\ Len(records) = 1
    /\ Len(BufferOf(1)) = 2 * total_length(layout)
    /\ Len(result.rows) = 1
    /\ records[1] = ParseRecord(layout, Base(layout))

\* A line of space bytes only, one at least, before its line terminator.
SpaceLine(line) ==
    /\ \E i \in 1..Len(line) : line[i] = 32
    /\ \A i \in 1..Len(line) : line[i] \in {32, 10, 13}
    /\ \A i, j \in 1..Len(line) : (i < j /\ line[i] # 32) => line[j] # 32

\* The record of a line of spaces: every text field empty, every integer field null;
\* TT1 and TT2 of spaces and category 99, or a null HM_ANN and an empty CLA.
BlankRecord(r) ==
    /\ \A i \in 1..Len(field_defs(layout)) :
          r[field_defs(layout)[i].name] =
              IF field_defs(layout)[i].ftype = "I" THEN NoneV ELSE <<>>
    /\ IF layout = "sbj"
       THEN r["TT1"] = <<32, 32>> /\ r["TT2"] = <<32, 32, 32, 32>> /\ r["CL"] = 99
       ELSE r["HM_ANN"] = NoneV /\ r["CLA"] = <<>>

\* C30: a line of spaces only is not skipped: it gives one record, with empty text
\* fields, null integer fields, category 99 and suffixes of spaces (subject layout), a
\* null HM_ANN and an empty CLA (content layout); a source of such lines gives a table
\* with a row for each line, not the empty table.
C30_SpaceLineGivesBlankRecord ==
    /\ \A k \in 1..Len(records) : SpaceLine(DataLines(source)[k]) => BlankRecord(records[k])
    /\ (pc = "returned" /\ Unlimited /\ source # <<>>
            /\ \A i \in 1..Len(source) : SpaceLine(source[i]))
          => /\ result # EmptyFrame
             /\ Len(result.rows) = Len(source)
             /\ \A k \in 1..Len(source) : result.rows[k] = records[k]

\* The table returned for a source of one line of three spaces: one row, the blank
\* record.
C30_Witness ==
    /\ pc = "returned"
    /\ source = << <<32, 32, 32, 13, 10>> >>
    /\ Len(result.rows) = 1
    /\ BlankRecord(result.rows[1])

\* C23: once the cumulative rate-limit count has reached max_rate_limit_attempts (4),
\* handle_rate_limit has raised and the program stops: no step made with the count at
\* 4 or more sends a request to the API, starts the analysis of an announcement or
\* marks an announcement as processed.
C23_StopsAtMaxRateLimits ==
    [][rate_limit_count >= max_rate_limit_attempts
       => /\ calls' # calls + 1
          /\ ~(apc = "loop" /\ apc' = "analyze")
          /\ openai_processed' = openai_processed]_vars

\* A rate-limit event: the step in which a request is answered with a rate-limit
\* error that handle_rate_limit takes up (attempt 1 or 2 of a call).
RateLimitEvent ==
    /\ calls' = calls + 1
    /\ response' = "rate_limit"
    /\ calls' < max_attempts

C25_EveryEarlyRateLimitWaitsAndRetries ==
    /\ [](calls <= max_attempts)
    /\ [][/\ RateLimitEvent
             => /\ waits' = Append(waits, base_wait_time * (2 ^ (rate_limit_count' - 1)))
                /\ apc' = "call"
                /\ raised' = "none"
          /\ (calls' = calls + 1 /\ response' = "rate_limit" /\ calls' = max_attempts)
             => /\ raised' = "RateLimitError"
                /\ waits' = waits
                /\ apc' # "call"
          /\ (calls' = calls + 1 /\ response' = "error")
             => /\ raised' = "APIError"
                /\ waits' = waits
                /\ apc' # "call"
                /\ rate_limit_count' = rate_limit_count]_vars

\* C25: one call of call_openai_with_retry makes at most 3 requests; a rate-limit
\* error on attempt 1 or 2 that brings the cumulative count n to less than 4 leads to a
\* wait of 60 * 2^(n-1) seconds (60, 120, 240) and then a retry, and one that brings it
\* to 4 or more makes handle_rate_limit raise, with no wait and no retry; a rate-limit
\* error on attempt 3 is raised again without waiting; any other error is raised at
\* once, with no retry and no change to the rate-limit count.
C25_EarlyRateLimitWaitsBelowMax ==
    /\ [](calls <= max_attempts)
    /\ [][/\ (RateLimitEvent /\ rate_limit_count' < max_rate_limit_attempts)
             => /\ waits' = Append(waits, base_wait_time * (2 ^ (rate_limit_count' - 1)))
                /\ waits'[Len(waits')] \in {60, 120, 240}
                /\ apc' = "call"
                /\ raised' = "none"
          /\ (RateLimitEvent /\ rate_limit_count' >= max_rate_limit_attempts)
             => /\ raised' = "Exception"
                /\ waits' = waits
                /\ apc' # "call"
          /\ (calls' = calls + 1 /\ response' = "rate_limit" /\ calls' = max_attempts)
             => /\ raised' = "RateLimitError"
                /\ waits' = waits
                /\ apc' # "call"
          /\ (calls' = calls + 1 /\ response' = "error")
             => /\ raised' = "APIError"
                /\ waits' = waits
                /\ apc' # "call"
                /\ rate_limit_count' = rate_limit_count]_vars

\* A call that was rate limited twice, waited 120 and 240 seconds (the second and third
\* rate limit of the run) and was rate limited again on its third attempt.
C25_Witness ==
    /\ calls = max_attempts
    /\ waits = <<120, 240>>
    /\ raised = "RateLimitError"
    /\ rate_limit_count = 3

\* C26: an announcement is marked openai_processed = 1 only if every requested
\* analysis of it produced a real result: in a step that marks an announcement, none
\* of the results of its analyses is a failure placeholder (so that an announcement
\* with a failed analysis stays unprocessed for a later run).
C26_MarkedOnlyWithRealResults ==
    [][\A a \in Ids :
         (openai_processed[a] = 0 /\ openai_processed'[a] = 1)
         => /\ announcements[ai] = a
            /\ Len(results) = Len(Requested(analysis_types))
            /\ \A k \in 1..Len(results) :
                 results[k] = Analysed(Requested(analysis_types)[k])]_vars

====
